---- MODULE Spec2Model ----
(***************************************************************************)
(* A model of the graphdb-benchmarks workload generation and execution     *)
(* engine: the Latency Mode and Throughput Mode engines of the backend     *)
(* implementations (e2e_impl/neo4j_impl.py, e2e_impl/aster_impl.py,        *)
(* e2e_impl/arangodb_impl.py, impl/neo4j_impl.py, impl/orientdb_impl.py),  *)
(* the task loop of docker_runner.main, and the two workload synthesizers  *)
(* (docker_runner.generate_workload, tools/workload_tools.py).             *)
(***************************************************************************)
EXTENDS Integers, Sequences, FiniteSets, TLC

(***************************************************************************)
(* Bounds of the model.                                                    *)
(***************************************************************************)
MaxOps == 3

MaxThreads == 2

(***************************************************************************)
(* Generic helpers.                                                        *)
(***************************************************************************)
Range(s) == {s[i] : i \in 1..Len(s)}

Min(a, b) == IF a <= b THEN a ELSE b

\* Python's s[i:j] on a sequence, with 0-based i, j (clamped to the length).
Slice(s, i, j) == [k \in 1..(Min(j, Len(s)) - i) |-> s[i + k]]

RECURSIVE Flatten(_)
Flatten(ss) == IF ss = <<>> THEN <<>> ELSE Head(ss) \o Flatten(Tail(ss))

(***************************************************************************)
(* Abstract operations and the engines.                                    *)
(***************************************************************************)
OpTypes == <<"READ_NBRS", "ADD_EDGE", "ADD_NODE", "DEL_EDGE", "DEL_NODE">>

\* One abstract operation {type, params}.  An operation is told apart from
\* the others of its sequence by its position, which the model carries in
\* the field pos.
MkOp(t, i) ==
    [type |-> t,
     params |-> IF t \in {"ADD_EDGE", "DEL_EDGE"} THEN <<"src", "dst">> ELSE <<"id">>,
     pos |-> i]

\* The operation sequences the engines are run on: single-type and mixed.
WorkloadOf(kind, n) ==
    [i \in 1..n |-> MkOp(IF kind = "single" THEN "READ_NBRS"
                         ELSE OpTypes[((i - 1) % Len(OpTypes)) + 1], i)]

Engines == {"e2e_neo4j", "e2e_aster", "e2e_arangodb", "impl_neo4j", "impl_orientdb"}

\* Engines whose _execute_throughput chunks the sequence and submits one
\* process_chunk call per chunk.
ChunkedEngines == {"e2e_neo4j", "e2e_aster"}

\* Engines whose _execute_throughput maps run_op over the single operations.
MapEngines == {"e2e_arangodb", "impl_neo4j", "impl_orientdb"}

\* Engines that translate the whole workload with _compile_workload first.
CompilingEngines == {"e2e_neo4j", "e2e_arangodb", "impl_neo4j", "impl_orientdb"}

\* Variant of CompileWorkload: the ADD_EDGE branch is missing.
CompileWorkloadNoAddEdge(w) ==
    LET kept == SelectSeq(w, LAMBDA op : op.type # "ADD_EDGE")
    IN  [i \in 1..Len(kept) |->
            [q |-> kept[i].type, p |-> kept[i].params, pos |-> kept[i].pos]]

\* _compile_workload: one backend-native command per operation of a known
\* type; an operation of an unknown type is dropped.
RECURSIVE CompileWorkload(_)
CompileWorkload(w) ==
    IF w = <<>> THEN <<>>
    ELSE LET op == Head(w)
         IN  (IF op.type \in Range(OpTypes)
              THEN <<[q |-> op.type, p |-> op.params, pos |-> op.pos]>>
              ELSE <<>>) \o CompileWorkload(Tail(w))

\* math.ceil(n / k)
CeilDiv(n, k) == (n + k - 1) \div k

\* Variant of ChunkSize: floor division (len // client_threads).
ChunkSizeFloor(n, k) == n \div k

\* Variant of ChunkSize: never 0.
ChunkSizeAtLeastOne(n, k) == IF n = 0 THEN 1 ELSE CeilDiv(n, k)

\* chunk_size = math.ceil(len(prepared) / client_threads)
ChunkSize(n, k) == CeilDiv(n, k)

\* Variant of MakeChunks: each slice runs one element into the next.
MakeChunksOverlap(s, size) ==
    [c \in 1..CeilDiv(Len(s), size) |-> Slice(s, (c - 1) * size, c * size + 1)]

\* [prepared[i:i + chunk_size] for i in range(0, len(prepared), chunk_size)]
MakeChunks(s, size) ==
    [c \in 1..CeilDiv(Len(s), size) |-> Slice(s, (c - 1) * size, c * size)]

VARIABLES
    engine,         \* the backend implementation under test
    mode,           \* "latency" | "throughput"
    workload,       \* the operation sequence handed to the engine
    client_threads, \* self.current_client_threads
    pc,             \* the position of the calling (main) thread
    prepared,       \* the sequence the engine iterates or dispatches
    translated,     \* positions whose backend-native form has been built
    tasks,          \* the work items submitted to the pool, in submit order
    fut,            \* the state of each work item's future
    progress,       \* operations of each work item executed so far
    queue,          \* the pool's work queue (indices into tasks)
    thread,         \* per pool thread: the work item it runs, 0 when idle
    ctx,            \* per pool thread: the execution context it holds
    tl_client,      \* threads that hold a thread-local orientdb connection
    executed,       \* log of executions, in the order they happened
    consumed,       \* futures whose result the main thread has read
    total_ops,      \* the main thread's sum of the workers' counts
    start_taken,    \* the start timestamp has been taken
    end_taken,      \* the end timestamp has been taken
    timer_on,       \* latency mode: the per-operation timer runs
    cur,            \* latency mode: position in prepared of the loop
    latencies,      \* latency mode: the recorded duration samples
    result,         \* the Result Record returned, or NoResult
    g_impl,         \* synthesizer called: "tools" | "runner" | "none"
    g_task,         \* generate_workload argument task_name
    g_ids,          \* generate_workload argument ids / existing_ids
    g_n,            \* generate_workload argument num_ops
    g_ratios,       \* generate_workload argument ratios (<<>> for None, {})
    g_rng,          \* the state of the random source
    g_out,          \* what the call produced, NoCall before it
    r_pc,           \* docker_runner.main: "loop" | "done" | "crashed"
    r_tasks,        \* workload_config["tasks"]
    r_report_arg,   \* args.report_file is given
    r_dataset_ids,  \* what get_sample_ids yields for the dataset
    r_i,            \* tasks the loop has gone through
    r_results,      \* report["results"]
    r_cached_ids,   \* cached_ids (<<>> for None and for an empty list)
    r_threads,      \* db.current_client_threads, 0 while unset
    r_rng,          \* the state of the random source
    r_report,       \* the report file's content, NoReport while unwritten
    r_log,          \* per task gone through, what happened to it
    r_file,         \* the dataset file at args.dataset_path
    r_input,        \* the operation sequence last generated (task_input)
    r_seeds,        \* calls of random.seed made by the run
    r_samples,      \* calls of get_sample_ids made by the run
    r_returned,     \* per task gone through, what its method returned
    f_call,         \* the function applied, "none" before the call
    f_in,           \* its arguments
    f_out           \* what it returned

enginevars == <<engine, mode, workload, client_threads, pc, prepared, translated,
          tasks, fut, progress, queue, thread, ctx, tl_client, executed,
          consumed, total_ops, start_taken, end_taken, timer_on, cur,
          latencies, result>>

genvars == <<g_impl, g_task, g_ids, g_n, g_ratios, g_rng, g_out>>

runvars == <<r_pc, r_tasks, r_report_arg, r_dataset_ids, r_i, r_results,
             r_cached_ids, r_threads, r_rng, r_report, r_log, r_file,
             r_input, r_seeds, r_samples, r_returned>>

funvars == <<f_call, f_in, f_out>>

vars == <<enginevars, genvars, runvars, funvars>>

\* What the actions of one part leave alone.
notengine == <<genvars, runvars, funvars>>

notgen == <<enginevars, runvars, funvars>>

notrunner == <<enginevars, genvars, funvars>>

notfun == <<enginevars, genvars, runvars>>

NoResult == [metric_type |-> "none"]

NoCtx == [name |-> "none", creator |-> -1, serial |-> 0]

Threads == 1..client_threads

\* The thread id of the calling thread.
MainThread == 0

(***************************************************************************)
(* Strings.  A Python str is modelled as the sequence of its characters,   *)
(* so that "in", startswith and lower() are computed, not assumed.         *)
(***************************************************************************)
S_mixed == <<"m", "i", "x", "e", "d">>

S_read == <<"r", "e", "a", "d">>

S_read_nbrs == <<"r", "e", "a", "d", "_", "n", "b", "r", "s">>

S_add_nodes == <<"a", "d", "d", "_", "n", "o", "d", "e", "s">>

S_delete_nodes == <<"d", "e", "l", "e", "t", "e", "_", "n", "o", "d", "e", "s">>

S_add_edges == <<"a", "d", "d", "_", "e", "d", "g", "e", "s">>

S_delete_edges == <<"d", "e", "l", "e", "t", "e", "_", "e", "d", "g", "e", "s">>

S_insert_node == <<"i", "n", "s", "e", "r", "t", "_", "n", "o", "d", "e">>

S_add_node == <<"a", "d", "d", "_", "n", "o", "d", "e">>

S_delete_node == <<"d", "e", "l", "e", "t", "e", "_", "n", "o", "d", "e">>

S_insert_edge == <<"i", "n", "s", "e", "r", "t", "_", "e", "d", "g", "e">>

S_add_edge == <<"a", "d", "d", "_", "e", "d", "g", "e">>

S_delete_edge == <<"d", "e", "l", "e", "t", "e", "_", "e", "d", "g", "e">>

S_new == <<"n", "e", "w", "_">>

UpperChars == <<"A", "B", "C", "D", "E", "F", "G", "H", "I", "J", "K", "L", "M",
                "N", "O", "P", "Q", "R", "S", "T", "U", "V", "W", "X", "Y", "Z">>

LowerChars == <<"a", "b", "c", "d", "e", "f", "g", "h", "i", "j", "k", "l", "m",
                "n", "o", "p", "q", "r", "s", "t", "u", "v", "w", "x", "y", "z">>

\* str.lower()
LowerChar(c) ==
    IF \E i \in 1..Len(UpperChars) : UpperChars[i] = c
    THEN LowerChars[CHOOSE i \in 1..Len(UpperChars) : UpperChars[i] = c]
    ELSE c

Lower(str) == [i \in 1..Len(str) |-> LowerChar(str[i])]

\* sub in str
Contains(str, sub) ==
    \E i \in 0..(Len(str) - Len(sub)) : SubSeq(str, i + 1, i + Len(sub)) = sub

\* str.startswith(prefix)
StartsWith(str, prefix) ==
    Len(prefix) <= Len(str) /\ SubSeq(str, 1, Len(prefix)) = prefix

DigitChars == <<"0", "1", "2", "3", "4", "5", "6", "7", "8", "9">>

\* str(n) for n >= 0
RECURSIVE Digits(_)
Digits(n) ==
    IF n < 10 THEN <<DigitChars[n + 1]>>
    ELSE Append(Digits(n \div 10), DigitChars[(n % 10) + 1])

RECURSIVE Sum(_)
Sum(ws) == IF ws = <<>> THEN 0 ELSE Head(ws) + Sum(Tail(ws))

(***************************************************************************)
(* The random source.  Its state is a tape of draws read cyclically from a *)
(* cursor; a draw u stands for random() = u / DrawRange.  Every primitive  *)
(* (random.choice, random.randint, one pick of random.choices) takes one   *)
(* draw.                                                                   *)
(***************************************************************************)
TapeLen == 3

MaxDraw == 1

DrawRange == MaxDraw + 1

Draw(rng) == rng.tape[(rng.at % Len(rng.tape)) + 1]

Advance(rng) == [rng EXCEPT !.at = @ + 1]

\* random.choice(seq), seq not empty
RandomChoice(seq, rng) == seq[((Draw(rng) * Len(seq)) \div DrawRange) + 1]

RandintLow == 1000000

RandintHigh == 99999999

\* random.randint(1000000, 99999999)
Randint(rng) ==
    RandintLow + ((Draw(rng) * (RandintHigh - RandintLow + 1)) \div DrawRange)

RECURSIVE CumWeights(_, _)
CumWeights(ws, acc) ==
    IF ws = <<>> THEN <<>>
    ELSE <<acc + Head(ws)>> \o CumWeights(Tail(ws), acc + Head(ws))

\* Variant of WeightedPick: the weights are ignored.
WeightedPickUniform(population, weights, rng) == RandomChoice(population, rng)

\* One pick of random.choices: population[bisect(cum_weights,
\* random() * total, 0, n - 1)].
WeightedPick(population, weights, rng) ==
    LET cum == CumWeights(weights, 0)
        total == cum[Len(cum)]
        n == Len(population)
        hits == {i \in 1..(n - 1) : cum[i] * DrawRange > Draw(rng) * total}
    IN  population[IF hits = {} THEN n
                   ELSE CHOOSE i \in hits : \A j \in hits : i <= j]

RECURSIVE PickTypes(_, _, _, _)
PickTypes(population, weights, k, rng) ==
    IF k <= 0 THEN [v |-> <<>>, rng |-> rng]
    ELSE LET rest == PickTypes(population, weights, k - 1, Advance(rng))
         IN  [v |-> <<WeightedPick(population, weights, rng)>> \o rest.v,
              rng |-> rest.rng]

\* random.choices(population, weights=weights, k=k): ValueError when the
\* weights do not sum to more than zero.
RandomChoices(population, weights, k, rng) ==
    IF Sum(weights) <= 0
    THEN [status |-> "raise", v |-> <<>>, rng |-> rng]
    ELSE [status |-> "ok"] @@ PickTypes(population, weights, k, rng)

(***************************************************************************)
(* tools/workload_tools.py                                                 *)
(***************************************************************************)
TASK_PREFIX_MAP ==
    << <<S_read_nbrs, "READ_NBRS">>, <<S_add_nodes, "ADD_NODE">>,
       <<S_delete_nodes, "DEL_NODE">>, <<S_add_edges, "ADD_EDGE">>,
       <<S_delete_edges, "DEL_EDGE">> >>

MIXED_CONFIG_KEY_MAP ==
    << <<S_read, "READ_NBRS">>, <<S_read_nbrs, "READ_NBRS">>,
       <<S_insert_node, "ADD_NODE">>, <<S_add_node, "ADD_NODE">>,
       <<S_delete_node, "DEL_NODE">>, <<S_insert_edge, "ADD_EDGE">>,
       <<S_add_edge, "ADD_EDGE">>, <<S_delete_edge, "DEL_EDGE">> >>

\* The value of the first of the entries hits of an ordered mapping, ""
\* (None) when there is none.
FirstOf(map, hits) ==
    IF hits = {} THEN ""
    ELSE map[CHOOSE i \in hits : \A j \in hits : i <= j][2]

\* The entries of a mapping whose key is key, is contained in str, is a
\* prefix of str.
KeyIs(map, key) == {i \in 1..Len(map) : map[i][1] = key}

KeyIn(map, str) == {i \in 1..Len(map) : Contains(str, map[i][1])}

KeyStarts(map, str) == {i \in 1..Len(map) : StartsWith(str, map[i][1])}

\* _get_existing_id
GetExistingId(existing_ids, rng) ==
    IF existing_ids = <<>>
    THEN [v |-> <<"0">>, rng |-> rng]
    ELSE [v |-> RandomChoice(existing_ids, rng), rng |-> Advance(rng)]

\* Variant of GetNewUniqueId: the number without the prefix.
GetNewUniqueIdNoPrefix(rng) == [v |-> Digits(Randint(rng)), rng |-> Advance(rng)]

\* _get_new_unique_id
GetNewUniqueId(rng) == [v |-> S_new \o Digits(Randint(rng)), rng |-> Advance(rng)]

\* Variant of CreateOp: an edge operation gets one endpoint only.
CreateOpOneEndpoint(op_type, existing_ids, rng) ==
    LET a == GetExistingId(existing_ids, rng)
    IN  IF op_type \in {"ADD_EDGE", "DEL_EDGE"}
        THEN [op |-> [type |-> op_type, params |-> [src |-> a.v]], rng |-> a.rng]
        ELSE [op |-> [type |-> op_type, params |-> [id |-> a.v]], rng |-> a.rng]

\* _create_op
CreateOp(op_type, existing_ids, rng) ==
    CASE op_type \in {"READ_NBRS", "DEL_NODE"} ->
            LET a == GetExistingId(existing_ids, rng)
            IN  [op |-> [type |-> op_type, params |-> [id |-> a.v]], rng |-> a.rng]
      [] op_type = "ADD_NODE" ->
            LET a == GetNewUniqueId(rng)
            IN  [op |-> [type |-> op_type, params |-> [id |-> a.v]], rng |-> a.rng]
      [] op_type \in {"ADD_EDGE", "DEL_EDGE"} ->
            LET a == GetExistingId(existing_ids, rng)
                b == GetExistingId(existing_ids, a.rng)
            IN  [op |-> [type |-> op_type, params |-> [src |-> a.v, dst |-> b.v]],
                 rng |-> b.rng]
      [] OTHER -> [op |-> [type |-> op_type, params |-> <<>>], rng |-> rng]

\* [_create_op(op, existing_ids) for op in types]
RECURSIVE CreateOps(_, _, _)
CreateOps(types, existing_ids, rng) ==
    IF types = <<>> THEN [status |-> "ok", ops |-> <<>>, rng |-> rng]
    ELSE LET first == CreateOp(Head(types), existing_ids, rng)
             rest == CreateOps(Tail(types), existing_ids, first.rng)
         IN  [status |-> "ok", ops |-> <<first.op>> \o rest.ops, rng |-> rest.rng]

\* [x] * n, empty for n <= 0
Repeat(x, n) == [i \in 1..n |-> x]

\* generate_single_task_workload
GenerateSingleTaskWorkload(op_type, existing_ids, num_ops, rng) ==
    CreateOps(Repeat(op_type, num_ops), existing_ids, rng)

\* Variant of ResolveKey: no lookup of the table keys the key holds.
ResolveKeyExactOnly(key) ==
    FirstOf(MIXED_CONFIG_KEY_MAP, KeyIs(MIXED_CONFIG_KEY_MAP, Lower(key)))

\* The key resolution of generate_mixed_workload: exact match of the
\* lower-cased key, else the first table key contained in it.
ResolveKey(key) ==
    LET norm_key == Lower(key)
        exact == FirstOf(MIXED_CONFIG_KEY_MAP, KeyIs(MIXED_CONFIG_KEY_MAP, norm_key))
    IN  IF exact # "" THEN exact
        ELSE FirstOf(MIXED_CONFIG_KEY_MAP, KeyIn(MIXED_CONFIG_KEY_MAP, norm_key))

\* Of the (type, weight) pairs of the keys of ratios, those of the keys
\* that resolved ("if matched_op", "if key in KEY_MAP").
Resolved(all) == SelectSeq(all, LAMBDA pair : pair[1] # "")

Firsts(pairs) == [i \in 1..Len(pairs) |-> pairs[i][1]]

Seconds(pairs) == [i \in 1..Len(pairs) |-> pairs[i][2]]

\* The loop "for key, weight in ratios.items()" of generate_mixed_workload:
\* the (population entry, weight) pairs it appends, in order.
ParseRatios(ratios) ==
    Resolved([i \in 1..Len(ratios) |-> <<ResolveKey(ratios[i][1]), ratios[i][2]>>])

\* Variant of GenerateMixedWorkload: no fallback, random.choices is called
\* with whatever was resolved.
GenerateMixedWorkloadNoFallback(existing_ids, num_ops, ratios, rng) ==
    LET pairs == ParseRatios(ratios)
        chosen == RandomChoices(Firsts(pairs), Seconds(pairs), num_ops, rng)
    IN  IF chosen.status = "raise"
        THEN [status |-> "raise", ops |-> <<>>, rng |-> chosen.rng]
        ELSE CreateOps(chosen.v, existing_ids, chosen.rng)

\* generate_mixed_workload
GenerateMixedWorkload(existing_ids, num_ops, ratios, rng) ==
    LET pairs == ParseRatios(ratios)
    IN  IF pairs = <<>>
        THEN GenerateSingleTaskWorkload("READ_NBRS", existing_ids, num_ops, rng)
        ELSE LET chosen == RandomChoices(Firsts(pairs), Seconds(pairs), num_ops, rng)
             IN  IF chosen.status = "raise"
                 THEN [status |-> "raise", ops |-> <<>>, rng |-> chosen.rng]
                 ELSE CreateOps(chosen.v, existing_ids, chosen.rng)

\* ratios = {"read_nbrs": 0.8, "add_edges": 0.2}; weights are in tenths.
DefaultRatios == << <<S_read_nbrs, 8>>, <<S_add_edges, 2>> >>

\* tools.workload_tools.generate_workload
ToolsGenerateWorkload(task_name, existing_ids, num_ops, ratios, rng) ==
    IF Contains(task_name, S_mixed)
    THEN GenerateMixedWorkload(existing_ids, num_ops,
                               IF ratios = <<>> THEN DefaultRatios ELSE ratios, rng)
    ELSE LET matched == FirstOf(TASK_PREFIX_MAP, KeyStarts(TASK_PREFIX_MAP, task_name))
         IN  GenerateSingleTaskWorkload(IF matched # "" THEN matched ELSE "READ_NBRS",
                                        existing_ids, num_ops, rng)

(***************************************************************************)
(* docker_runner.py: generate_workload                                     *)
(***************************************************************************)
KEY_MAP ==
    << <<S_read_nbrs, "READ_NBRS">>, <<S_add_nodes, "ADD_NODE">>,
       <<S_delete_nodes, "DEL_NODE">>, <<S_add_edges, "ADD_EDGE">>,
       <<S_delete_edges, "DEL_EDGE">> >>

\* key in KEY_MAP, then KEY_MAP[key]
RunnerResolveKey(key) == FirstOf(KEY_MAP, KeyIs(KEY_MAP, key))

\* The parameter object of one operation (the body of the last loop).
RunnerCreateOp(op_type, ids, rng) ==
    CASE op_type \in {"READ_NBRS", "DEL_NODE"} ->
            [op |-> [type |-> op_type, params |-> [id |-> RandomChoice(ids, rng)]],
             rng |-> Advance(rng)]
      [] op_type = "ADD_NODE" ->
            [op |-> [type |-> op_type,
                     params |-> [id |-> S_new \o Digits(Randint(rng))]],
             rng |-> Advance(rng)]
      [] op_type \in {"ADD_EDGE", "DEL_EDGE"} ->
            [op |-> [type |-> op_type,
                     params |-> [src |-> RandomChoice(ids, rng),
                                 dst |-> RandomChoice(ids, Advance(rng))]],
             rng |-> Advance(Advance(rng))]
      [] OTHER -> [op |-> [type |-> op_type, params |-> <<>>], rng |-> rng]

RECURSIVE RunnerCreateOps(_, _, _)
RunnerCreateOps(types, ids, rng) ==
    IF types = <<>> THEN [status |-> "ok", ops |-> <<>>, rng |-> rng]
    ELSE LET first == RunnerCreateOp(Head(types), ids, rng)
             rest == RunnerCreateOps(Tail(types), ids, first.rng)
         IN  [status |-> "ok", ops |-> <<first.op>> \o rest.ops, rng |-> rest.rng]

\* The if/elif chain of the single-task branch; READ_NBRS is the default.
RunnerSingleType(task_name) ==
    LET matched == FirstOf(KEY_MAP, KeyIn(KEY_MAP, task_name))
    IN  IF matched # "" THEN matched ELSE "READ_NBRS"

\* docker_runner.generate_workload
RunnerGenerateWorkload(task_name, ids_in, num_ops, ratios, rng) ==
    LET ids == IF ids_in = <<>> THEN << <<"0">> >> ELSE ids_in
    IN  IF Contains(task_name, S_mixed) /\ ratios # <<>>
        THEN LET pairs == Resolved([i \in 1..Len(ratios) |->
                           <<RunnerResolveKey(ratios[i][1]), ratios[i][2]>>])
             IN  IF pairs = <<>>
                 THEN RunnerCreateOps(Repeat("READ_NBRS", num_ops), ids, rng)
                 ELSE LET chosen == RandomChoices(Firsts(pairs), Seconds(pairs),
                                                  num_ops, rng)
                      IN  IF chosen.status = "raise"
                          THEN [status |-> "raise", ops |-> <<>>, rng |-> chosen.rng]
                          ELSE RunnerCreateOps(chosen.v, ids, chosen.rng)
        ELSE RunnerCreateOps(Repeat(RunnerSingleType(task_name), num_ops), ids, rng)

(***************************************************************************)
(* The synthesizers as a state machine: one call on inputs drawn from      *)
(* small sets.                                                             *)
(***************************************************************************)
MaxGenOps == 2

S_read_nbrs_latency == <<"r", "e", "a", "d", "_", "n", "b", "r", "s", "_", "l", "a", "t", "e", "n", "c", "y">>

S_add_nodes_throughput == <<"a", "d", "d", "_", "n", "o", "d", "e", "s", "_", "t", "h", "r", "o", "u", "g", "h", "p", "u", "t">>

S_delete_edges_latency == <<"d", "e", "l", "e", "t", "e", "_", "e", "d", "g", "e", "s", "_", "l", "a", "t", "e", "n", "c", "y">>

S_mixed_workload_latency == <<"m", "i", "x", "e", "d", "_", "w", "o", "r", "k", "l", "o", "a", "d", "_", "l", "a", "t", "e", "n", "c", "y">>

S_warmup == <<"w", "a", "r", "m", "u", "p">>

S_READ == <<"R", "E", "A", "D">>

S_bogus == <<"b", "o", "g", "u", "s">>

TaskNames ==
    {S_read_nbrs_latency, S_add_nodes_throughput, S_delete_edges_latency,
     S_mixed_workload_latency, S_warmup}

IdPools == {<<>>, << <<"1">> >>, << <<"1">>, <<"2">> >>}

\* Ratio specs as ordered (key, weight) pairs; <<>> stands for None and {}.
RatioSpecs ==
    {<<>>,
     << <<S_read_nbrs, 8>>, <<S_add_edges, 2>> >>,
     << <<S_read_nbrs, 0>> >>,
     << <<S_READ, 1>>, <<S_bogus, 1>> >>,
     << <<S_bogus, 1>> >>,
     << <<S_add_nodes, 1>>, <<S_delete_edges, 0>> >>}

RngStates == [tape : [1..TapeLen -> 0..MaxDraw], at : {0}]

NoCall == [status |-> "none", ops |-> <<>>]

GenInit ==
    /\ g_impl = "none"
    /\ g_task \in TaskNames
    /\ g_ids \in IdPools
    /\ g_n \in 0..MaxGenOps
    /\ g_ratios \in RatioSpecs
    /\ g_rng \in RngStates
    /\ g_out = NoCall

\* The variables of the synthesizers while another part is checked.
GenIdle ==
    /\ g_impl = "none"
    /\ g_task = <<>>
    /\ g_ids = <<>>
    /\ g_n = 0
    /\ g_ratios = <<>>
    /\ g_rng = [tape |-> <<0>>, at |-> 0]
    /\ g_out = NoCall

\* workload = tools.workload_tools.generate_workload(task, ids, n, ratios)
CallTools ==
    /\ g_impl = "none"
    /\ g_impl' = "tools"
    /\ LET r == ToolsGenerateWorkload(g_task, g_ids, g_n, g_ratios, g_rng)
       IN  /\ g_out' = [status |-> r.status, ops |-> r.ops]
           /\ g_rng' = r.rng
    /\ UNCHANGED <<g_task, g_ids, g_n, g_ratios>>
    /\ UNCHANGED notgen

\* task_input = docker_runner.generate_workload(task, ids, n, ratios)
CallRunner ==
    /\ g_impl = "none"
    /\ g_impl' = "runner"
    /\ LET r == RunnerGenerateWorkload(g_task, g_ids, g_n, g_ratios, g_rng)
       IN  /\ g_out' = [status |-> r.status, ops |-> r.ops]
           /\ g_rng' = r.rng
    /\ UNCHANGED <<g_task, g_ids, g_n, g_ratios>>
    /\ UNCHANGED notgen

GenNext == CallTools \/ CallRunner

(***************************************************************************)
(* Calls of generate_mixed_workload and generate_single_task_workload.     *)
(***************************************************************************)
S_add_edges_upper == <<"A", "d", "d", "_", "E", "d", "g", "e", "s">>

S_delete_node_add_node == <<"d", "e", "l", "e", "t", "e", "_", "n", "o", "d", "e", "_", "a", "d", "d", "_", "n", "o", "d", "e">>

S_reads == <<"r", "e", "a", "d", "s">>

\* Ratio specs: keys in the table, keys in another case, keys that hold a
\* table key, keys that hold two, keys that hold none.
MixedRatioSpecs ==
    RatioSpecs \cup
    {<< <<S_add_edges_upper, 3>>, <<S_bogus, 2>>, <<S_reads, 1>> >>,
     << <<S_delete_node_add_node, 2>>, <<S_insert_edge, 0>> >>,
     << <<S_bogus, 0>>, <<S_delete_edge, 5>>, <<S_READ, 5>> >>,
     << <<S_delete_edges, 0>>, <<S_add_nodes, 1>> >>}

MixedInit ==
    /\ f_call = "generate_mixed_workload"
    /\ f_in \in [existing_ids : IdPools, num_ops : 0..MaxGenOps,
                 ratios : MixedRatioSpecs, rng : RngStates]
    /\ f_out = <<>>

\* generate_mixed_workload(existing_ids, num_ops, ratios), with the locals
\* population and weights as they are at line 115.
CallMixed ==
    /\ f_call = "generate_mixed_workload"
    /\ LET r == GenerateMixedWorkload(f_in.existing_ids, f_in.num_ops,
                                      f_in.ratios, f_in.rng)
           pairs == ParseRatios(f_in.ratios)
       IN  /\ f_call' = IF r.status = "ok" THEN "mixed_returned" ELSE "mixed_raised"
           /\ f_out' = [ops |-> r.ops, population |-> Firsts(pairs),
                        weights |-> Seconds(pairs)]
    /\ UNCHANGED f_in
    /\ UNCHANGED notfun

\* docker_runner.generate_workload("mixed_workload_latency", ids, num_ops,
\* ratios), with the locals population and weights as they are at line 59
\* (empty when the mixed branch is not entered).
CallRunnerMixed ==
    /\ f_call = "generate_mixed_workload"
    /\ LET r == RunnerGenerateWorkload(S_mixed_workload_latency,
                                       f_in.existing_ids, f_in.num_ops,
                                       f_in.ratios, f_in.rng)
           pairs == Resolved([i \in 1..Len(f_in.ratios) |->
                        <<RunnerResolveKey(f_in.ratios[i][1]), f_in.ratios[i][2]>>])
       IN  /\ f_call' = IF r.status = "ok" THEN "runner_mixed_returned"
                        ELSE "runner_mixed_raised"
           /\ f_out' = [ops |-> r.ops, population |-> Firsts(pairs),
                        weights |-> Seconds(pairs)]
    /\ UNCHANGED f_in
    /\ UNCHANGED notfun

MixedNext == CallMixed \/ CallRunnerMixed

SingleInit ==
    /\ f_call = "generate_single_task_workload"
    /\ f_in \in [op_type : Range(OpTypes), existing_ids : IdPools,
                 num_ops : 0..MaxGenOps, rng : RngStates]
    /\ f_out = <<>>

\* generate_single_task_workload(op_type, existing_ids, num_ops)
CallSingle ==
    /\ f_call = "generate_single_task_workload"
    /\ f_call' = "single_returned"
    /\ f_out' = GenerateSingleTaskWorkload(f_in.op_type, f_in.existing_ids,
                                           f_in.num_ops, f_in.rng).ops
    /\ UNCHANGED f_in
    /\ UNCHANGED notfun

SingleNext == CallSingle

(***************************************************************************)
(* get_sample_ids (tools/dataset_tools.py and docker_runner.py).           *)
(***************************************************************************)
MaxLines == 2

\* Lines of a dataset file, as iteration over the file yields them.
L_edge == <<"1", " ", "2", "\n">>

L_comma == <<"1", ",", "2", "\n">>

L_hash == <<"#", " ", "1", " ", "2", "\n">>

L_percent == <<"%", " ", "3", " ", "4", "\n">>

L_one == <<"1", "\n">>

L_blank == <<"\n">>

L_spaces == <<" ", " ", "\n">>

L_edge23 == <<" ", "2", " ", " ", "3", " ", "\n">>

L_indented_hash == <<" ", "#", " ", "1", "\n">>

L_noeol == <<"3", " ", "1">>

L_weighted == <<"4", ",", "1", "\t", "7", " ", "9", "\n">>

FileLines ==
    {L_edge, L_comma, L_hash, L_percent, L_one, L_blank, L_spaces, L_edge23,
     L_indented_hash, L_noeol, L_weighted}

\* Iteration over a file ends every line but possibly the last with "\n".
IsLineSeq(ls) == \A i \in 1..(Len(ls) - 1) : ls[i][Len(ls[i])] = "\n"

\* A dataset file: unreadable (open raises), or its lines; bad_at = k > 0
\* when fetching line k raises (an I/O or decoding error), 0 when every
\* line can be read.
Files ==
    {[readable |-> FALSE, lines |-> <<>>, bad_at |-> 0]} \cup
    {f \in [readable : {TRUE},
            lines : UNION {[1..n -> FileLines] : n \in 0..MaxLines},
            bad_at : 0..MaxLines] :
        IsLineSeq(f.lines) /\ f.bad_at <= Len(f.lines)}

Whitespace == {" ", "\t", "\n"}

RECURSIVE LStrip(_)
LStrip(str) ==
    IF str # <<>> /\ Head(str) \in Whitespace THEN LStrip(Tail(str)) ELSE str

RECURSIVE RStrip(_)
RStrip(str) ==
    IF str # <<>> /\ str[Len(str)] \in Whitespace
    THEN RStrip(SubSeq(str, 1, Len(str) - 1))
    ELSE str

\* str.strip()
Strip(str) == RStrip(LStrip(str))

\* str.replace(a, b) for single characters
\* Variant of Replace: nothing is replaced.
ReplaceNothing(str, a, b) == str

Replace(str, a, b) == [i \in 1..Len(str) |-> IF str[i] = a THEN b ELSE str[i]]

\* str.split(): the maximal runs of non-whitespace characters, in order.
RECURSIVE SplitFrom(_, _, _)
SplitFrom(str, word, parts) ==
    LET closed == IF word = <<>> THEN parts ELSE Append(parts, word)
    IN  IF str = <<>> THEN closed
        ELSE IF Head(str) \in Whitespace THEN SplitFrom(Tail(str), <<>>, closed)
        ELSE SplitFrom(Tail(str), Append(word, Head(str)), parts)

Split(str) == SplitFrom(str, <<>>, <<>>)

\* The loop "for line in f" of get_sample_ids from the set ids on: the set
\* collected, and whether fetching a line raised before the loop ended.
RECURSIVE SampleLoop(_, _, _, _)
SampleLoop(lines, bad_at, count, ids) ==
    IF lines = <<>> THEN [raised |-> FALSE, ids |-> ids]
    ELSE IF bad_at = 1 THEN [raised |-> TRUE, ids |-> ids]
    ELSE LET line == Head(lines)
             rest_bad == IF bad_at = 0 THEN 0 ELSE bad_at - 1
         IN  IF StartsWith(line, <<"%">>) \/ StartsWith(line, <<"#">>)
             THEN SampleLoop(Tail(lines), rest_bad, count, ids)
             ELSE LET parts == Split(Replace(Strip(line), ",", " "))
                      added == IF Len(parts) >= 2
                               THEN ids \cup {parts[1], parts[2]}
                               ELSE ids
                  IN  IF Cardinality(added) >= count
                      THEN [raised |-> FALSE, ids |-> added]
                      ELSE SampleLoop(Tail(lines), rest_bad, count, added)

\* list(ids): the elements of the set in the order the set iterates, which
\* for strings depends on the hash seed of the process.
ListsOf(ids) ==
    {l \in [1..Cardinality(ids) -> ids] :
        \A i, j \in 1..Cardinality(ids) : l[i] = l[j] => i = j}

\* The pool returned when reading the file raises.
DummyIds == << <<"0">>, <<"1">> >>

DefaultCount == 5000

\* The lists get_sample_ids(filepath, count) can return.
GetSampleIdsKeepCollected(file, count) ==
    IF ~file.readable THEN {DummyIds}
    ELSE ListsOf(SampleLoop(file.lines, file.bad_at, count, {}).ids)

GetSampleIds(file, count) ==
    IF ~file.readable THEN {DummyIds}
    ELSE LET loop == SampleLoop(file.lines, file.bad_at, count, {})
         IN  IF loop.raised THEN {DummyIds} ELSE ListsOf(loop.ids)

SampleCounts == {1, 2, 3, DefaultCount}

SampleInit ==
    /\ f_call = "get_sample_ids"
    /\ f_in \in [file : Files, count : SampleCounts]
    /\ f_out = <<>>

\* tools.dataset_tools.get_sample_ids
CallToolsSample ==
    /\ f_call = "get_sample_ids"
    /\ f_call' = "dataset_tools.get_sample_ids"
    /\ f_out' \in GetSampleIds(f_in.file, f_in.count)
    /\ UNCHANGED f_in
    /\ UNCHANGED notfun

\* docker_runner.get_sample_ids
CallRunnerSample ==
    /\ f_call = "get_sample_ids"
    /\ f_call' = "docker_runner.get_sample_ids"
    /\ f_out' \in GetSampleIds(f_in.file, f_in.count)
    /\ UNCHANGED f_in
    /\ UNCHANGED notfun

SampleNext == CallToolsSample \/ CallRunnerSample

\* ---- clean_dataset and get_sample_ids on the same dataset file ----

\* The loop of clean_dataset: comment lines are skipped, a line is split on
\* whitespace only, and its first two parts are written as "src dst\n".
RECURSIVE CleanLoop(_, _)
CleanLoop(lines, written) ==
    IF lines = <<>> THEN written
    ELSE LET line == Head(lines)
         IN  IF StartsWith(line, <<"%">>) \/ StartsWith(line, <<"#">>)
             THEN CleanLoop(Tail(lines), written)
             ELSE LET parts == Split(line)
                  IN  IF Len(parts) >= 2
                      THEN CleanLoop(Tail(lines),
                               Append(written,
                                      parts[1] \o <<" ">> \o parts[2] \o <<"\n">>))
                      ELSE CleanLoop(Tail(lines), written)

\* clean_dataset(original_path): the cleaned file and self.total_lines.
CleanDataset(file) ==
    LET written == CleanLoop(file.lines, <<>>)
    IN  [lines |-> written, total_lines |-> Len(written)]

\* Dataset files that can be read to the end.
ReadableFiles == {f \in Files : f.readable /\ f.bad_at = 0}

DatasetInit ==
    /\ f_call = "dataset"
    /\ f_in \in [file : ReadableFiles, count : SampleCounts]
    /\ f_out = [sampled |-> FALSE, ids |-> <<>>,
                cleaned |-> FALSE, lines |-> <<>>, total_lines |-> 0]

\* The runner samples the ID pool from the dataset file.
SampleDataset ==
    /\ f_call = "dataset"
    /\ ~f_out.sampled
    /\ \E ids \in GetSampleIds(f_in.file, f_in.count) :
          f_out' = [f_out EXCEPT !.sampled = TRUE, !.ids = ids]
    /\ UNCHANGED <<f_call, f_in>>
    /\ UNCHANGED notfun

\* load_graph cleans the same file before loading it.
CleanDatasetCall ==
    /\ f_call = "dataset"
    /\ ~f_out.cleaned
    /\ LET c == CleanDataset(f_in.file)
       IN  f_out' = [f_out EXCEPT !.cleaned = TRUE, !.lines = c.lines,
                                  !.total_lines = c.total_lines]
    /\ UNCHANGED <<f_call, f_in>>
    /\ UNCHANGED notfun

DatasetNext == SampleDataset \/ CleanDatasetCall

(***************************************************************************)
(* docker_runner.py: the task loop of main.                                *)
(***************************************************************************)
MaxTasks == 2

S_load_graph == <<"l", "o", "a", "d", "_", "g", "r", "a", "p", "h">>

S_add_nodes_latency == <<"a", "d", "d", "_", "n", "o", "d", "e", "s", "_", "l", "a", "t", "e", "n", "c", "y">>

S_delete_nodes_latency == <<"d", "e", "l", "e", "t", "e", "_", "n", "o", "d", "e", "s", "_", "l", "a", "t", "e", "n", "c", "y">>

S_add_edges_latency == <<"a", "d", "d", "_", "e", "d", "g", "e", "s", "_", "l", "a", "t", "e", "n", "c", "y">>

S_read_nbrs_throughput == <<"r", "e", "a", "d", "_", "n", "b", "r", "s", "_", "t", "h", "r", "o", "u", "g", "h", "p", "u", "t">>

S_delete_nodes_throughput == <<"d", "e", "l", "e", "t", "e", "_", "n", "o", "d", "e", "s", "_", "t", "h", "r", "o", "u", "g", "h", "p", "u", "t">>

S_add_edges_throughput == <<"a", "d", "d", "_", "e", "d", "g", "e", "s", "_", "t", "h", "r", "o", "u", "g", "h", "p", "u", "t">>

S_delete_edges_throughput == <<"d", "e", "l", "e", "t", "e", "_", "e", "d", "g", "e", "s", "_", "t", "h", "r", "o", "u", "g", "h", "p", "u", "t">>

S_mixed_workload_throughput == <<"m", "i", "x", "e", "d", "_", "w", "o", "r", "k", "l", "o", "a", "d", "_", "t", "h", "r", "o", "u", "g", "h", "p", "u", "t">>

S_suffix_throughput == <<"_", "t", "h", "r", "o", "u", "g", "h", "p", "u", "t">>

\* The methods a backend class has under these names (load_graph and the
\* interface mapping).
DbMethods ==
    {S_load_graph,
     S_read_nbrs_latency,
     S_add_nodes_latency,
     S_delete_nodes_latency,
     S_add_edges_latency,
     S_delete_edges_latency,
     S_mixed_workload_latency,
     S_read_nbrs_throughput,
     S_add_nodes_throughput,
     S_delete_nodes_throughput,
     S_add_edges_throughput,
     S_delete_edges_throughput,
     S_mixed_workload_throughput}

\* dict.get(key, default)
Get(d, key, default) == IF key \in DOMAIN d THEN d[key] ELSE default

DefaultOps == 1000

DefaultClientThreads == 4

EngineDefaultThreads == 8

\* The task descriptors the loop is run on.
TaskDescs ==
    {[name |-> S_load_graph],
     [name |-> S_read_nbrs_latency, ops |-> 1],
     [name |-> S_mixed_workload_latency, ops |-> 1,
      ratios |-> << <<S_read_nbrs, 0>> >>],
     [name |-> S_add_nodes_throughput, ops |-> 2, client_threads |-> 2],
     [name |-> S_read_nbrs_throughput, ops |-> 1],
     [name |-> S_warmup, ops |-> 1]}

TaskLists == UNION {[1..n -> TaskDescs] : n \in 0..MaxTasks}

NoReport == [written |-> FALSE]

RunnerTapeLen == 2

\* The states the random source can be in when the loop starts.
RunnerRngStates == [tape : [1..RunnerTapeLen -> 0..MaxDraw], at : {0}]

\* The dataset files the loop is run on.
DatasetFiles ==
    {[readable |-> FALSE, lines |-> <<>>, bad_at |-> 0],
     [readable |-> TRUE, lines |-> <<>>, bad_at |-> 0],
     [readable |-> TRUE, lines |-> <<L_hash, L_edge>>, bad_at |-> 0]}

RunnerInit ==
    /\ r_pc = "loop"
    /\ r_tasks \in TaskLists
    /\ r_report_arg \in BOOLEAN
    /\ r_file \in DatasetFiles
    /\ r_dataset_ids \in GetSampleIds(r_file, DefaultCount)
    /\ r_input = <<>>
    /\ r_seeds = 0
    /\ r_samples = 0
    /\ r_returned = <<>>
    /\ r_i = 0
    /\ r_results = <<>>
    /\ r_cached_ids = <<>>
    /\ r_threads = 0
    /\ r_rng \in RunnerRngStates
    /\ r_report = NoReport
    /\ r_log = <<>>

\* The variables of the task loop while another part is checked.
RunnerIdle ==
    /\ r_pc = "idle"
    /\ r_file = [readable |-> FALSE, lines |-> <<>>, bad_at |-> 0]
    /\ r_input = <<>>
    /\ r_seeds = 0
    /\ r_samples = 0
    /\ r_returned = <<>>
    /\ r_tasks = <<>>
    /\ r_report_arg = FALSE
    /\ r_dataset_ids = <<>>
    /\ r_i = 0
    /\ r_results = <<>>
    /\ r_cached_ids = <<>>
    /\ r_threads = 0
    /\ r_rng = [tape |-> <<0>>, at |-> 0]
    /\ r_report = NoReport
    /\ r_log = <<>>

\* Python values a task method hands back, tagged with their type.
PyNone == [py |-> "None"]

PyFloat(v) == [py |-> "float", value |-> v]

PyInt(v) == [py |-> "int", value |-> v]

PyDict(items) == [py |-> "dict", items |-> items]

\* No value: the method was not called or did not return.
NoValue == [py |-> "nothing"]

\* What a call of the task's method can do: an engine method returns its
\* record; load_graph returns None in the backends of the repository, and a
\* backend loaded by name may time the load itself and return the seconds as
\* a float or as an integer; either method can raise.
MethodOutcomes(task_name) ==
    IF task_name = S_load_graph THEN {"none", "float", "int", "raise"}
    ELSE {"dict", "raise"}

\* The value the method returns.
ReturnOf(outcome) ==
    CASE outcome = "dict" -> PyDict([metric_type |-> "some", total_ops |-> 1])
      [] outcome = "float" -> PyFloat(3)
      [] outcome = "int" -> PyInt(3)
      [] outcome = "none" -> PyNone
      [] OTHER -> NoValue

\* Variant of Normalize: every number is wrapped.
NormalizeNumbers(metrics) ==
    IF metrics.py \in {"float", "int"}
    THEN PyDict([duration_s |-> metrics.value])
    ELSE metrics

\* if isinstance(metrics, float): metrics = {"duration_s": metrics}
Normalize(metrics) ==
    IF metrics.py = "float" THEN PyDict([duration_s |-> metrics.value])
    ELSE metrics

\* The metrics a successful call leaves in the entry.
MetricsOf(outcome) == Normalize(ReturnOf(outcome))

\* task_result as initialised, then as the except branch or the else
\* branch leaves it.
FailedEntry(task, error) ==
    [task |-> task.name, config |-> task, status |-> "failed",
     metrics |-> <<>>, error |-> error]

SuccessEntry(task, metrics) ==
    [task |-> task.name, config |-> task, status |-> "success",
     metrics |-> metrics]

\* Variant of Caught: the try block starts after workload generation.
CaughtExecOnly(kind) == kind = "exec_raise"

\* The failures that "except Exception" of the loop body catches: the try
\* block holds sampling, generation and the method call.
Caught(kind) == kind \in {"gen_raise", "exec_raise"}

\* One iteration of "for task in workload_config.get('tasks', [])".
RunTask ==
    /\ r_pc = "loop"
    /\ r_i < Len(r_tasks)
    /\ LET task == r_tasks[r_i + 1]
           task_name == task.name
           has_method == task_name \in DbMethods
           generates == has_method /\ task_name # S_load_graph
           ids == IF generates /\ r_cached_ids = <<>> THEN r_dataset_ids
                  ELSE r_cached_ids
           gen == IF generates
                  THEN RunnerGenerateWorkload(task_name, ids,
                           Get(task, "ops", DefaultOps), Get(task, "ratios", <<>>),
                           r_rng)
                  ELSE [status |-> "ok", ops |-> <<>>, rng |-> r_rng]
       IN  /\ r_cached_ids' = ids
           /\ r_samples' = IF generates /\ r_cached_ids = <<>>
                           THEN r_samples + 1 ELSE r_samples
           /\ r_rng' = gen.rng
           /\ r_input' = IF generates /\ gen.status = "ok" THEN gen.ops ELSE r_input
           /\ \E outcome \in MethodOutcomes(task_name) :
                LET kind == IF ~has_method THEN "no_method"
                            ELSE IF gen.status = "raise" THEN "gen_raise"
                            ELSE IF outcome = "raise" THEN "exec_raise"
                            ELSE "ok"
                    escapes == kind \in {"gen_raise", "exec_raise"} /\ ~Caught(kind)
                IN  /\ r_threads' =
                           IF has_method /\ generates /\ gen.status = "ok"
                              /\ Contains(task_name, S_suffix_throughput)
                           THEN Get(task, "client_threads", DefaultClientThreads)
                           ELSE r_threads
                    /\ IF escapes
                       THEN /\ r_pc' = "crashed"
                            /\ UNCHANGED <<r_results, r_i, r_log, r_returned>>
                       ELSE /\ r_pc' = r_pc
                            /\ r_i' = r_i + 1
                            /\ r_log' = Append(r_log, kind)
                            /\ r_returned' = Append(r_returned,
                                  IF kind = "ok" THEN ReturnOf(outcome)
                                  ELSE NoValue)
                            /\ r_results' = Append(r_results,
                                  CASE kind = "no_method" ->
                                         FailedEntry(task, "Method not found")
                                    [] kind = "gen_raise" ->
                                         FailedEntry(task, "Total of weights must be greater than zero")
                                    [] kind = "exec_raise" ->
                                         FailedEntry(task, "execution error")
                                    [] OTHER -> SuccessEntry(task, MetricsOf(outcome)))
    /\ UNCHANGED <<r_tasks, r_report_arg, r_dataset_ids, r_report, r_file, r_seeds>>
    /\ UNCHANGED notrunner

\* After the loop: db.close(), then json.dump(report) if a report file is
\* given.
Finish ==
    /\ r_pc = "loop"
    /\ r_i = Len(r_tasks)
    /\ r_pc' = "done"
    /\ r_report' = IF r_report_arg
                   THEN [written |-> TRUE, results |-> r_results]
                   ELSE r_report
    /\ UNCHANGED <<r_tasks, r_report_arg, r_dataset_ids, r_i, r_results,
                   r_cached_ids, r_threads, r_rng, r_log, r_file, r_input,
                   r_seeds, r_samples, r_returned>>
    /\ UNCHANGED notrunner

RunnerNext == RunTask \/ Finish

(***************************************************************************)
(* workload_generator.py: WorkloadGenerator                                *)
(***************************************************************************)
MaxNodeCount == 2

MaxWGOps == 3

\* _get_random_node_id: str(random.randint(0, node_count - 1))
GetRandomNodeId(node_count, rng) ==
    [v |-> Digits((Draw(rng) * node_count) \div DrawRange), rng |-> Advance(rng)]

\* generate_add_nodes(num_ops): the ids count up from node_count.
GenerateAddNodes(node_count, num_ops) ==
    [i \in 1..num_ops |->
        [type |-> "ADD_NODE", params |-> [id |-> Digits(node_count + (i - 1))]]]

\* ops_map[op_type](1)[0]: one operation from the generator of its type; a
\* key that ops_map does not hold raises KeyError.
GenerateOne(op_type, node_count, rng) ==
    CASE op_type = S_insert_node ->
            [status |-> "ok", op |-> GenerateAddNodes(node_count, 1)[1], rng |-> rng]
      [] op_type \in {S_read, S_delete_node} ->
            LET a == GetRandomNodeId(node_count, rng)
            IN  [status |-> "ok",
                 op |-> [type |-> IF op_type = S_read THEN "READ_NBRS"
                                  ELSE "DEL_NODE",
                         params |-> [id |-> a.v]],
                 rng |-> a.rng]
      [] op_type \in {S_insert_edge, S_delete_edge} ->
            LET a == GetRandomNodeId(node_count, rng)
                b == GetRandomNodeId(node_count, a.rng)
            IN  [status |-> "ok",
                 op |-> [type |-> IF op_type = S_insert_edge THEN "ADD_EDGE"
                                  ELSE "DEL_EDGE",
                         params |-> [src |-> a.v, dst |-> b.v]],
                 rng |-> b.rng]
      [] OTHER -> [status |-> "raise", op |-> <<>>, rng |-> rng]

\* The loop "for op_type in chosen_types" of generate_mixed.
RECURSIVE GenerateEach(_, _, _)
GenerateEach(chosen_types, node_count, rng) ==
    IF chosen_types = <<>> THEN [status |-> "ok", ops |-> <<>>, rng |-> rng]
    ELSE LET first == GenerateOne(Head(chosen_types), node_count, rng)
         IN  IF first.status = "raise"
             THEN [status |-> "raise", ops |-> <<>>, rng |-> first.rng]
             ELSE LET rest == GenerateEach(Tail(chosen_types), node_count,
                                           first.rng)
                  IN  [status |-> rest.status,
                       ops |-> IF rest.status = "ok"
                               THEN <<first.op>> \o rest.ops ELSE <<>>,
                       rng |-> rest.rng]

\* generate_mixed(num_ops, ratios); ratios is the sequence of the
\* (key, weight) items of the dictionary.  v / total raises when the
\* weights sum to zero.
GenerateMixed(num_ops, ratios, node_count, rng) ==
    LET keys == [i \in 1..Len(ratios) |-> ratios[i][1]]
        weights == [i \in 1..Len(ratios) |-> ratios[i][2]]
    IN  IF Sum(weights) = 0
        THEN [status |-> "raise", ops |-> <<>>, rng |-> rng]
        ELSE LET chosen_types == PickTypes(keys, weights, num_ops, rng)
             IN  GenerateEach(chosen_types.v, node_count, chosen_types.rng)

GeneratorRatios ==
    { << <<S_insert_node, 1>> >>,
      << <<S_read, 4>>, <<S_insert_node, 1>> >>,
      << <<S_insert_node, 1>>, <<S_delete_node, 1>>, <<S_insert_edge, 2>> >>,
      << <<S_delete_edge, 1>>, <<S_read, 0>> >>,
      << <<S_read, 0>> >>,
      << <<S_add_node, 1>> >> }

\* A generator WorkloadGenerator(node_count, seed) and the arguments of one
\* call; the seed fixes the tape.
GeneratorInit ==
    /\ f_call = "generator"
    /\ f_in \in [node_count : 1..MaxNodeCount,
                 num_ops : 0..MaxWGOps,
                 ratios : GeneratorRatios,
                 rng : [tape : [1..TapeLen -> 0..MaxDraw], at : {0}]]
    /\ f_out = <<>>

CallGenerateAddNodes ==
    /\ f_call = "generator"
    /\ f_call' = "add_nodes_returned"
    /\ f_out' = [status |-> "ok",
                 ops |-> GenerateAddNodes(f_in.node_count, f_in.num_ops),
                 rng |-> f_in.rng]
    /\ UNCHANGED f_in
    /\ UNCHANGED notfun

CallGenerateMixed ==
    /\ f_call = "generator"
    /\ LET r == GenerateMixed(f_in.num_ops, f_in.ratios, f_in.node_count,
                              f_in.rng)
       IN  /\ f_out' = r
           /\ f_call' = IF r.status = "ok" THEN "mixed_returned"
                        ELSE "mixed_raised"
    /\ UNCHANGED f_in
    /\ UNCHANGED notfun

GeneratorNext == CallGenerateAddNodes \/ CallGenerateMixed

(***************************************************************************)
(* docker_runner.py: main from the connection retry to the report.         *)
(***************************************************************************)
\* range(60)
MaxAttempts == 60

ConnectOutcomes == {"ok", "raise"}

\* Variant of AfterFailedAttempts: an exhausted loop falls through to the
\* task loop.
AfterFailedAttemptsFallThrough(failed) ==
    IF failed = MaxAttempts THEN "tasks" ELSE "connect"

\* Where main stands after `failed` attempts that all raised: the for loop
\* goes on, or its else clause raises "Connection timeout", which the outer
\* handler answers with sys.exit(1).
AfterFailedAttempts(failed) ==
    IF failed = MaxAttempts THEN "exited" ELSE "connect"

ConnectInit ==
    /\ f_call = "connect"
    /\ f_in \in [tasks : 0..MaxTasks, report_file : BOOLEAN]
    /\ f_out = [attempts |-> 0, failed |-> 0, connected |-> FALSE,
                tasks_run |-> 0, report_written |-> FALSE, status |-> -1]

\* One iteration of "for i in range(60)": db.connect() returns and the loop
\* is left, or it raises, the bare except sleeps, and the loop goes on or
\* is exhausted.
ConnectAttempt ==
    /\ f_call = "connect"
    /\ \E outcome \in ConnectOutcomes :
          IF outcome = "ok"
          THEN /\ f_out' = [f_out EXCEPT !.attempts = @ + 1,
                                         !.connected = TRUE]
               /\ f_call' = "tasks"
          ELSE /\ f_call' = AfterFailedAttempts(f_out.failed + 1)
               /\ f_out' = [f_out EXCEPT
                               !.attempts = @ + 1,
                               !.failed = @ + 1,
                               !.status = IF f_call' = "exited" THEN 1 ELSE @]
    /\ UNCHANGED f_in
    /\ UNCHANGED notfun

\* One iteration of the task loop.
ConnectedTask ==
    /\ f_call = "tasks"
    /\ f_out.tasks_run < f_in.tasks
    /\ f_out' = [f_out EXCEPT !.tasks_run = @ + 1]
    /\ UNCHANGED <<f_call, f_in>>
    /\ UNCHANGED notfun

\* After the task loop: db.close(), the report if a report file was named,
\* and main returns.
ConnectedFinish ==
    /\ f_call = "tasks"
    /\ f_out.tasks_run = f_in.tasks
    /\ f_out' = [f_out EXCEPT !.report_written = f_in.report_file,
                              !.status = 0]
    /\ f_call' = "returned"
    /\ UNCHANGED f_in
    /\ UNCHANGED notfun

ConnectNext == ConnectAttempt \/ ConnectedTask \/ ConnectedFinish

\* client_threads = getattr(self, 'current_client_threads', 8) at the start
\* of _execute_throughput.
WorkersUsed ==
    IF r_threads = 0 THEN EngineDefaultThreads ELSE r_threads

(***************************************************************************)
(* The aggregation of _execute_latency: durations are whole milliseconds,  *)
(* the reported values are fractions [num, den] of a millisecond.          *)
(***************************************************************************)
MaxSamples == 101

MaxDuration == 3

\* statistics.mean(latencies) * 1000
Mean(data) == [num |-> Sum(data), den |-> Len(data)]

\* sorted(data)
Sorted(data) == SortSeq(data, LAMBDA a, b : a < b)

\* statistics.quantiles(data, n=100)[98] * 1000, method "exclusive": the cut
\* point i = 99 of
\*     m = ld + 1;  j = i * m // n, clamped to 1..ld - 1;
\*     delta = i * m - j * n
\*     (data[j - 1] * (n - delta) + data[j] * delta) / n
\* with data sorted and indexed from 0.
Quantile99(data) ==
    LET sorted == Sorted(data)
        ld == Len(data)
        m == ld + 1
        j0 == (99 * m) \div 100
        j == IF j0 < 1 THEN 1 ELSE IF j0 > ld - 1 THEN ld - 1 ELSE j0
        delta == 99 * m - j * 100
    IN  [num |-> sorted[j] * (100 - delta) + sorted[j + 1] * delta, den |-> 100]

\* Variant of HasP99: the percentile needs more than 100 samples.
HasP99Over(n) == n > 100

\* len(latencies) >= 100
HasP99(n) == n >= 100

\* Lines 181-190 of _execute_latency: the record, or the StatisticsError of
\* statistics.mean on no sample.
LatencyStats(samples, workload_len) ==
    IF samples = <<>> THEN [status |-> "raise"]
    ELSE [status |-> "ok",
          metric_type |-> "latency",
          avg_latency_ms |-> Mean(samples),
          p99_latency_ms |-> IF HasP99(Len(samples)) THEN Quantile99(samples)
                             ELSE [num |-> 0, den |-> 1],
          total_ops |-> workload_len]

\* Duration samples: n samples of a given shape, d the longest duration.
SampleShapes == {"flat", "rising", "falling", "peak_first", "peak_last", "zigzag"}

SamplesOf(shape, n, d) ==
    [i \in 1..n |->
        CASE shape = "flat" -> d
          [] shape = "rising" -> (i * d) \div n
          [] shape = "falling" -> ((n - i) * d) \div n
          [] shape = "peak_first" -> IF i = 1 THEN d * 100 ELSE 1
          [] shape = "peak_last" -> IF i = n THEN d * 100 ELSE 1
          [] OTHER -> IF i % 2 = 0 THEN d ELSE 0]

SampleSizes == (0..3) \cup (98..MaxSamples)

AggInit ==
    /\ f_call = "aggregate"
    /\ \E shape \in SampleShapes, n \in SampleSizes, d \in 0..MaxDuration :
         f_in \in [engine : Engines, latencies : {SamplesOf(shape, n, d)}]
    /\ f_out = <<>>

\* avg_lat, p99_lat and the returned record of _execute_latency, the same
\* lines in every engine.
Aggregate ==
    /\ f_call = "aggregate"
    /\ f_call' = "aggregated"
    /\ f_out' = LatencyStats(f_in.latencies, Len(f_in.latencies))
    /\ UNCHANGED f_in
    /\ UNCHANGED notfun

AggNext == Aggregate

(***************************************************************************)
(* The chunking of _execute_throughput (e2e neo4j and aster).              *)
(***************************************************************************)
MaxChunkOps == 8

MaxChunkThreads == 6

ChunkInit ==
    /\ f_call = "chunks"
    /\ f_in \in [engine : ChunkedEngines, n : 0..MaxChunkOps,
                 client_threads : 1..MaxChunkThreads]
    /\ f_out = <<>>

\* chunk_size = math.ceil(len(prepared) / self.current_client_threads) and
\* the list of the chunks; range() with step 0 raises ValueError.
MakeChunksCall ==
    /\ f_call = "chunks"
    /\ LET prepared_ops == [i \in 1..f_in.n |-> i]
           size == ChunkSize(f_in.n, f_in.client_threads)
       IN  IF size = 0
           THEN /\ f_call' = "chunks_raised"
                /\ f_out' = <<>>
           ELSE /\ f_call' = "chunks_made"
                /\ f_out' = MakeChunks(prepared_ops, size)
    /\ UNCHANGED f_in
    /\ UNCHANGED notfun

ChunkNext == MakeChunksCall

(***************************************************************************)
(* The aggregation of _execute_throughput: elapsed is the difference of    *)
(* two readings of time.time() in whole milliseconds (the wall clock can   *)
(* be set back between them), ops_per_sec a fraction [num, den].           *)
(***************************************************************************)
MaxTputOps == 4

MaxElapsed == 4

\* Variant of OpsPerSec: the division is not guarded.
OpsPerSecUnguarded(n, elapsed) ==
    IF elapsed = 0 THEN [status |-> "raise", v |-> [num |-> 0, den |-> 1]]
    ELSE [status |-> "ok", v |-> [num |-> n * 1000, den |-> elapsed]]

\* ops_per_sec = len(workload) / duration if duration > 0 else 0
OpsPerSec(n, elapsed) ==
    IF elapsed > 0
    THEN [status |-> "ok", v |-> [num |-> n * 1000, den |-> elapsed]]
    ELSE [status |-> "ok", v |-> [num |-> 0, den |-> 1]]

\* The record _execute_throughput returns.
ThroughputStats(n, elapsed) ==
    [metric_type |-> "throughput", ops_per_sec |-> OpsPerSec(n, elapsed).v,
     duration_ms |-> elapsed, total_ops |-> n]

TputInit ==
    /\ f_call = "throughput"
    /\ f_in \in [engine : Engines, n : 0..MaxTputOps, elapsed : -1..MaxElapsed]
    /\ f_out = <<>>

\* _execute_throughput on n operations that all succeed: the chunking
\* engines raise on an empty sequence before the timer starts; otherwise
\* the record is built after the pool is drained.
ThroughputAggregate ==
    /\ f_call = "throughput"
    /\ LET raised ==
               \/ /\ f_in.engine \in ChunkedEngines
                  /\ ChunkSize(f_in.n, EngineDefaultThreads) = 0
               \/ OpsPerSec(f_in.n, f_in.elapsed).status = "raise"
       IN  /\ f_call' = IF raised THEN "throughput_raised"
                        ELSE "throughput_recorded"
           /\ f_out' = IF raised THEN <<>>
                       ELSE ThroughputStats(f_in.n, f_in.elapsed)
    /\ UNCHANGED f_in
    /\ UNCHANGED notfun

TputNext == ThroughputAggregate

(***************************************************************************)
(* e2e_impl/base.py: print_progress.                                       *)
(***************************************************************************)
MaxTotal == 22

ProgressCap == 10000

\* print_progress(current, total): whether it raises (the remainder by an
\* interval of 0 is ZeroDivisionError) and whether it prints.
PrintProgress(current, total) ==
    IF total = 0 THEN [status |-> "ok", printed |-> FALSE]
    ELSE LET interval == Min(total \div 20, ProgressCap)
         IN  IF interval = 0 THEN [status |-> "raise", printed |-> FALSE]
             ELSE [status |-> "ok",
                   printed |-> (current % interval = 0 \/ current = total)]

ProgressInit ==
    /\ f_call = "print_progress"
    /\ \E total \in 0..MaxTotal, current \in 0..MaxTotal :
          /\ current <= total
          /\ f_in = [current |-> current, total |-> total]
    /\ f_out = <<>>

PrintProgressCall ==
    /\ f_call = "print_progress"
    /\ LET r == PrintProgress(f_in.current, f_in.total)
       IN  /\ f_call' = IF r.status = "ok" THEN "progress_returned"
                        ELSE "progress_raised"
           /\ f_out' = r
    /\ UNCHANGED f_in
    /\ UNCHANGED notfun

ProgressNext == PrintProgressCall

\* ---- load_graph: batched loading of the cleaned edge file ----

\* BATCH_SIZE is 5000 (Neo4j), 20000 (ArangoDB) and 500 (OrientDB) in the
\* source.  The model keeps the smallest size whose full batch print_progress
\* accepts, so that a full-batch flush never meets an interval of zero, as in
\* the source.
BATCH_SIZE == 20

MaxEdges == 42

LoadEngines == {"neo4j", "arangodb", "orientdb"}

\* Engines whose base class defines clean_dataset, total_lines and
\* print_progress (e2e_impl/base.py).  impl/base.py defines none of them and
\* no preprocess_dataset, which impl/orientdb_impl.py calls first.
HasPreprocess == {"neo4j", "arangodb"}

\* The cleaned file: one "src dst" line per edge.  span = 1 gives equal
\* lines, a large span gives lines that all differ.
CleanedEdge(i, span) == <<i % span, (2 * i + 1) % span>>

CleanedFiles ==
    {[i \in 1..n |-> CleanedEdge(i, span)] :
        n \in 0..MaxEdges, span \in {1, 3, 2 * MaxEdges + 2}}

SendNodes(sent, nodes) ==
    Append(sent, [kind |-> "nodes", ids |-> nodes, edges |-> <<>>])

SendEdges(sent, batch) ==
    Append(sent, [kind |-> "edges", ids |-> {}, edges |-> batch])

\* Full-batch flush inside the loop: nodes, then edges, then both cleared.
FlushFull(st) ==
    [st EXCEPT !.sent = SendEdges(SendNodes(st.sent, st.local_nodes),
                                  st.edges_batch),
               !.local_nodes = {},
               !.edges_batch = <<>>]

\* Final flush after the loop.  The e2e loaders test the node set and the
\* batch separately, the OrientDB loader tests the batch only; nothing is
\* cleared afterwards.
FlushFinal(st, eng) ==
    LET nodes_due == IF eng = "orientdb" THEN st.edges_batch # <<>>
                     ELSE st.local_nodes # {}
        s1 == IF nodes_due THEN SendNodes(st.sent, st.local_nodes)
              ELSE st.sent
    IN  [st EXCEPT !.sent = IF st.edges_batch # <<>>
                            THEN SendEdges(s1, st.edges_batch) ELSE s1]

LoadInit ==
    /\ f_call = "load_graph"
    /\ f_in \in [engine : LoadEngines, edges : CleanedFiles]
    /\ f_out = [pos |-> 0, local_nodes |-> {}, edges_batch |-> <<>>,
                count |-> 0, sent |-> <<>>]

\* load_graph up to the loop: the cleaned file is prepared.
LoadStart ==
    /\ f_call = "load_graph"
    /\ f_call' = IF f_in.engine \in HasPreprocess THEN "loading"
                 ELSE "load_raised"
    /\ UNCHANGED <<f_in, f_out>>
    /\ UNCHANGED notfun

\* One iteration of "for line in f".
LoadLine ==
    /\ f_call = "loading"
    /\ f_out.pos < Len(f_in.edges)
    /\ LET edge == f_in.edges[f_out.pos + 1]
           st == [f_out EXCEPT
                    !.pos = @ + 1,
                    !.local_nodes = @ \cup {edge[1], edge[2]},
                    !.edges_batch = Append(@, edge),
                    !.count = @ + 1]
           full == Len(st.edges_batch) >= BATCH_SIZE
           shown == PrintProgress(st.count, Len(f_in.edges))
       IN  /\ f_out' = IF full THEN FlushFull(st) ELSE st
           /\ f_call' = IF full /\ shown.status = "raise"
                        THEN "load_raised" ELSE "loading"
    /\ UNCHANGED f_in
    /\ UNCHANGED notfun

\* End of file: the final flush and the last print_progress call.
LoadFinish ==
    /\ f_call = "loading"
    /\ f_out.pos = Len(f_in.edges)
    /\ f_out' = FlushFinal(f_out, f_in.engine)
    /\ f_call' = IF PrintProgress(f_out.count, Len(f_in.edges)).status = "ok"
                 THEN "load_returned" ELSE "load_raised"
    /\ UNCHANGED f_in
    /\ UNCHANGED notfun

LoadNext == LoadStart \/ LoadLine \/ LoadFinish

(***************************************************************************)
(* Two runs of docker_runner.main on the same dataset and configuration.   *)
(***************************************************************************)
\* The generating tasks the two runs go through.
PairTaskDescs ==
    {[name |-> S_read_nbrs_latency, ops |-> 1],
     [name |-> S_add_nodes_throughput, ops |-> 2],
     [name |-> S_mixed_workload_latency, ops |-> 2,
      ratios |-> << <<S_read_nbrs, 1>>, <<S_add_edges, 1>> >>],
     [name |-> S_load_graph]}

PairTaskLists == UNION {[1..n -> PairTaskDescs] : n \in 1..MaxTasks}

\* The task_input of every task of a run of the loop of main, in task order:
\* the run samples once, and every generate_workload call draws from the
\* source where the call before it left it.
RECURSIVE RunSequences(_, _, _)
RunSequences(task_list, ids, rng) ==
    IF task_list = <<>> THEN <<>>
    ELSE LET task == Head(task_list)
             generates == task.name \in DbMethods \ {S_load_graph}
             gen == RunnerGenerateWorkload(task.name, ids,
                        Get(task, "ops", DefaultOps), Get(task, "ratios", <<>>), rng)
         IN  IF generates
             THEN <<[status |-> gen.status, ops |-> gen.ops]>>
                  \o RunSequences(Tail(task_list), ids, gen.rng)
             ELSE <<[status |-> "path", ops |-> <<>>]>>
                  \o RunSequences(Tail(task_list), ids, rng)

\* Each run is its own process: main seeds nothing, so each run starts from
\* the state the interpreter gave the source, and each run's list(ids) has
\* the order of its own process.
PairInit ==
    /\ f_call = "two_runs"
    /\ \E file \in DatasetFiles :
         f_in \in [task_list : PairTaskLists,
                   file : {file},
                   ids_a : GetSampleIds(file, DefaultCount),
                   ids_b : GetSampleIds(file, DefaultCount),
                   rng_a : RngStates,
                   rng_b : RngStates]
    /\ f_out = <<>>

RunTwice ==
    /\ f_call = "two_runs"
    /\ f_call' = "two_runs_done"
    /\ f_out' = [a |-> RunSequences(f_in.task_list, f_in.ids_a, f_in.rng_a),
                 b |-> RunSequences(f_in.task_list, f_in.ids_b, f_in.rng_b)]
    /\ UNCHANGED f_in
    /\ UNCHANGED notfun

PairNext == RunTwice

EngineInit ==
    /\ engine \in Engines
    /\ mode \in {"latency", "throughput"}
    /\ \E n \in 0..MaxOps, kind \in {"single", "mixed"} :
          /\ (n = 0 => kind = "single")
          /\ workload = WorkloadOf(kind, n)
    /\ client_threads \in 1..MaxThreads
    /\ (mode = "latency" => client_threads = 1)
    /\ pc = "start"
    /\ prepared = <<>>
    /\ translated = {}
    /\ tasks = <<>>
    /\ fut = <<>>
    /\ progress = <<>>
    /\ queue = <<>>
    /\ thread = [w \in 1..client_threads |-> 0]
    /\ ctx = [w \in 1..client_threads |-> NoCtx]
    /\ tl_client = {}
    /\ executed = <<>>
    /\ consumed = {}
    /\ total_ops = 0
    /\ start_taken = FALSE
    /\ end_taken = FALSE
    /\ timer_on = FALSE
    /\ cur = 0
    /\ latencies = <<>>
    /\ result = NoResult

(***************************************************************************)
(* The execution context an operation runs on.                             *)
(***************************************************************************)
\* e2e neo4j process_chunk: "with self.driver.session() as session", one
\* session per call, opened by the pool thread that runs the call.
ChunkSessionCtx(w, t) == [name |-> "session", creator |-> w, serial |-> t]

\* impl neo4j run_op: one session per operation, opened by the pool thread.
OpSessionCtx(w, t) == [name |-> "session", creator |-> w, serial |-> t]

\* aster process_chunk: local_g = self.g.clone(), made by the pool thread.
CloneCtx(w, t) == [name |-> "g_clone", creator |-> w, serial |-> t]

\* orientdb _get_thread_connection: the thread-local client, made on the
\* thread's first use and kept for its later operations.
ThreadLocalCtx(w, t) == [name |-> "client", creator |-> w, serial |-> w]

\* arangodb run_op: self.db, the handle connect() made on the main thread.
SharedDbCtx(w, t) == [name |-> "db", creator |-> MainThread, serial |-> 0]

WorkerCtx(w, t) ==
    CASE engine = "e2e_neo4j"     -> ChunkSessionCtx(w, t)
      [] engine = "impl_neo4j"    -> OpSessionCtx(w, t)
      [] engine = "e2e_aster"     -> CloneCtx(w, t)
      [] engine = "impl_orientdb" -> ThreadLocalCtx(w, t)
      [] engine = "e2e_arangodb"  -> SharedDbCtx(w, t)

\* Latency mode runs on the main thread's own session / client / handle / g.
MainCtx == [name |-> "main", creator |-> MainThread, serial |-> 0]

\* AsterDB._run_op wraps the execution in try/except Exception: pass; the
\* other engines let the executor's exception out.
Swallows(e) == e = "e2e_aster"

Raises(e, ok) == ~ok /\ ~Swallows(e)

(***************************************************************************)
(* Both modes: translation ahead of the run.                               *)
(***************************************************************************)
AfterPrepare ==
    IF mode = "latency" THEN "lat_loop"
    ELSE IF engine \in ChunkedEngines THEN "partition" ELSE "start_timer"

\* prepared = self._compile_workload(workload)
Compile ==
    /\ pc = "start"
    /\ engine \in CompilingEngines
    /\ prepared' = CompileWorkload(workload)
    /\ translated' = {prepared'[i].pos : i \in 1..Len(prepared')}
    /\ pc' = AfterPrepare
    /\ UNCHANGED notengine
    /\ UNCHANGED <<engine, mode, workload, client_threads, tasks, fut, progress,
                   queue, thread, ctx, tl_client, executed, consumed, total_ops,
                   start_taken, end_taken, timer_on, cur, latencies, result>>

\* The aster engine has no compile step: it iterates the workload itself and
\* dispatches on the type inside _run_op.
AsterBegin ==
    /\ pc = "start"
    /\ engine \notin CompilingEngines
    /\ prepared' = workload
    /\ pc' = AfterPrepare
    /\ UNCHANGED notengine
    /\ UNCHANGED <<engine, mode, workload, client_threads, translated, tasks, fut,
                   progress, queue, thread, ctx, tl_client, executed, consumed,
                   total_ops, start_taken, end_taken, timer_on, cur, latencies,
                   result>>

(***************************************************************************)
(* Throughput mode: the calling thread.                                    *)
(***************************************************************************)
\* chunk_size = math.ceil(len / client_threads); chunks = [...].  With an
\* empty sequence chunk_size is 0 and range(0, 0, 0) raises ValueError.
Partition ==
    /\ pc = "partition"
    /\ LET size == ChunkSize(Len(prepared), client_threads)
       IN  IF size = 0
           THEN /\ pc' = "raised"
                /\ tasks' = tasks
           ELSE /\ pc' = "start_timer"
                /\ tasks' = MakeChunks(prepared, size)
    /\ UNCHANGED notengine
    /\ UNCHANGED <<engine, mode, workload, client_threads, prepared, translated,
                   fut, progress, queue, thread, ctx, tl_client, executed,
                   consumed, total_ops, start_taken, end_taken, timer_on, cur,
                   latencies, result>>

\* start_time = time.time()
StartTimer ==
    /\ pc = "start_timer"
    /\ start_taken' = TRUE
    /\ pc' = "submit"
    /\ UNCHANGED notengine
    /\ UNCHANGED <<engine, mode, workload, client_threads, prepared, translated,
                   tasks, fut, progress, queue, thread, ctx, tl_client, executed,
                   consumed, total_ops, end_taken, timer_on, cur, latencies,
                   result>>

\* The work items: the chunks (executor.submit(process_chunk, chunk) for
\* each chunk), or one item per operation (executor.map(run_op, prepared)).
WorkItems ==
    IF engine \in ChunkedEngines THEN tasks
    ELSE [i \in 1..Len(prepared) |-> <<prepared[i]>>]

Submit ==
    /\ pc = "submit"
    /\ tasks' = WorkItems
    /\ fut' = [t \in 1..Len(tasks') |-> "pending"]
    /\ progress' = [t \in 1..Len(tasks') |-> 0]
    /\ queue' = [t \in 1..Len(tasks') |-> t]
    /\ pc' = "collect"
    /\ UNCHANGED notengine
    /\ UNCHANGED <<engine, mode, workload, client_threads, prepared, translated,
                   thread, ctx, tl_client, executed, consumed, total_ops,
                   start_taken, end_taken, timer_on, cur, latencies, result>>

\* The future whose result the calling thread reads next: any completed one
\* (as_completed) in the chunked engines, the next in submit order
\* (the iterator of executor.map) in the others.
Collectable(t) ==
    /\ t \in 1..Len(tasks)
    /\ t \notin consumed
    /\ (engine \in MapEngines => t = Cardinality(consumed) + 1)

\* total_ops += future.result()   /   the next item of list(executor.map())
CollectResult(t) ==
    /\ pc = "collect"
    /\ Collectable(t)
    /\ fut[t] = "done"
    /\ consumed' = consumed \cup {t}
    /\ total_ops' = IF engine \in ChunkedEngines THEN total_ops + progress[t]
                    ELSE total_ops
    /\ UNCHANGED notengine
    /\ UNCHANGED <<engine, mode, workload, client_threads, pc, prepared,
                   translated, tasks, fut, progress, queue, thread, ctx,
                   tl_client, executed, start_taken, end_taken, timer_on, cur,
                   latencies, result>>

\* future.result() re-raises the worker's exception; the iterator of
\* executor.map also cancels the futures that have not started.
CollectFailure(t) ==
    /\ pc = "collect"
    /\ Collectable(t)
    /\ fut[t] = "failed"
    /\ fut' = IF engine \in MapEngines
              THEN [u \in 1..Len(fut) |-> IF fut[u] = "pending" THEN "cancelled"
                                          ELSE fut[u]]
              ELSE fut
    /\ pc' = "shutdown_raise"
    /\ UNCHANGED notengine
    /\ UNCHANGED <<engine, mode, workload, client_threads, prepared, translated,
                   tasks, progress, queue, thread, ctx, tl_client, executed,
                   consumed, total_ops, start_taken, end_taken, timer_on, cur,
                   latencies, result>>

\* The loop over the futures ends.
CollectFinished ==
    /\ pc = "collect"
    /\ consumed = 1..Len(tasks)
    /\ pc' = "shutdown_ok"
    /\ UNCHANGED notengine
    /\ UNCHANGED <<engine, mode, workload, client_threads, prepared, translated,
                   tasks, fut, progress, queue, thread, ctx, tl_client, executed,
                   consumed, total_ops, start_taken, end_taken, timer_on, cur,
                   latencies, result>>

\* Variant of PoolDrained: shutdown(wait=False), the pool is not waited for.
PoolNotAwaited == TRUE

\* Leaving "with ThreadPoolExecutor(...)" is shutdown(wait=True): it returns
\* when the queue is drained and every pool thread has finished.
PoolDrained == queue = <<>> /\ \A w \in Threads : thread[w] = 0

Shutdown ==
    /\ pc \in {"shutdown_ok", "shutdown_raise"}
    /\ PoolDrained
    /\ pc' = IF pc = "shutdown_ok" THEN "stop_timer" ELSE "raised"
    /\ UNCHANGED notengine
    /\ UNCHANGED <<engine, mode, workload, client_threads, prepared, translated,
                   tasks, fut, progress, queue, thread, ctx, tl_client, executed,
                   consumed, total_ops, start_taken, end_taken, timer_on, cur,
                   latencies, result>>

\* duration = time.time() - start_time; return {...}
ThroughputRecord == [metric_type |-> "throughput", total_ops |-> Len(workload)]

StopTimer ==
    /\ pc = "stop_timer"
    /\ end_taken' = TRUE
    /\ result' = ThroughputRecord
    /\ pc' = "returned"
    /\ UNCHANGED notengine
    /\ UNCHANGED <<engine, mode, workload, client_threads, prepared, translated,
                   tasks, fut, progress, queue, thread, ctx, tl_client, executed,
                   consumed, total_ops, start_taken, timer_on, cur, latencies>>

(***************************************************************************)
(* Throughput mode: the pool threads.                                      *)
(***************************************************************************)
\* A pool thread takes the head of the work queue; a cancelled item is
\* dropped, any other starts to run on a context of the thread.
TakeTask(w) ==
    /\ queue # <<>>
    /\ thread[w] = 0
    /\ LET t == Head(queue)
       IN  /\ queue' = Tail(queue)
           /\ IF fut[t] = "cancelled"
              THEN UNCHANGED <<fut, thread, ctx, tl_client>>
              ELSE /\ fut' = [fut EXCEPT ![t] = "running"]
                   /\ thread' = [thread EXCEPT ![w] = t]
                   /\ ctx' = [ctx EXCEPT ![w] = WorkerCtx(w, t)]
                   /\ tl_client' = IF engine = "impl_orientdb"
                                   THEN tl_client \cup {w} ELSE tl_client
    /\ UNCHANGED notengine
    /\ UNCHANGED <<engine, mode, workload, client_threads, pc, prepared,
                   translated, tasks, progress, executed, consumed, total_ops,
                   start_taken, end_taken, timer_on, cur, latencies, result>>

\* The next operation of the work item a pool thread runs.  A failure ends
\* the work item (the rest of its chunk is not run) unless it is swallowed.
ExecOp(w) ==
    /\ thread[w] # 0
    /\ LET t == thread[w]
           op == tasks[t][progress[t] + 1]
       IN  \E ok \in BOOLEAN :
             /\ executed' = Append(executed,
                    [pos |-> op.pos, task |-> t, thread |-> w, ctx |-> ctx[w],
                     ok |-> ok])
             /\ translated' = IF engine \in CompilingEngines THEN translated
                              ELSE translated \cup {op.pos}
             /\ IF Raises(engine, ok)
                THEN /\ fut' = [fut EXCEPT ![t] = "failed"]
                     /\ thread' = [thread EXCEPT ![w] = 0]
                     /\ ctx' = [ctx EXCEPT ![w] = NoCtx]
                     /\ progress' = progress
                ELSE /\ progress' = [progress EXCEPT ![t] = @ + 1]
                     /\ IF progress[t] + 1 = Len(tasks[t])
                        THEN /\ fut' = [fut EXCEPT ![t] = "done"]
                             /\ thread' = [thread EXCEPT ![w] = 0]
                             /\ ctx' = [ctx EXCEPT ![w] = NoCtx]
                        ELSE UNCHANGED <<fut, thread, ctx>>
    /\ UNCHANGED notengine
    /\ UNCHANGED <<engine, mode, workload, client_threads, pc, prepared, tasks,
                   queue, tl_client, consumed, total_ops, start_taken, end_taken,
                   timer_on, cur, latencies, result>>

(***************************************************************************)
(* Latency mode.                                                           *)
(***************************************************************************)
\* for ... in prepared: start = time.time()
LatStartTimer ==
    /\ pc = "lat_loop"
    /\ cur < Len(prepared)
    /\ cur' = cur + 1
    /\ timer_on' = TRUE
    /\ pc' = "lat_exec"
    /\ UNCHANGED notengine
    /\ UNCHANGED <<engine, mode, workload, client_threads, prepared, translated,
                   tasks, fut, progress, queue, thread, ctx, tl_client, executed,
                   consumed, total_ops, start_taken, end_taken, latencies,
                   result>>

\* The timed call, then latencies.append(time.time() - start).  In the aster
\* engine the timed call is _run_op, which first dispatches on the type and
\* builds the traversal.
LatExec ==
    /\ pc = "lat_exec"
    /\ LET op == prepared[cur]
       IN  \E ok \in BOOLEAN :
             /\ executed' = Append(executed,
                    [pos |-> op.pos, task |-> 0, thread |-> MainThread,
                     ctx |-> MainCtx, ok |-> ok])
             /\ translated' = IF engine \in CompilingEngines THEN translated
                              ELSE translated \cup {op.pos}
             /\ IF Raises(engine, ok)
                THEN /\ pc' = "raised"
                     /\ UNCHANGED <<latencies, timer_on>>
                ELSE /\ latencies' = Append(latencies, op.pos)
                     /\ timer_on' = FALSE
                     /\ pc' = "lat_loop"
    /\ UNCHANGED notengine
    /\ UNCHANGED <<engine, mode, workload, client_threads, prepared, tasks, fut,
                   progress, queue, thread, ctx, tl_client, consumed, total_ops,
                   start_taken, end_taken, cur, result>>

LatencyRecord == [metric_type |-> "latency", total_ops |-> Len(workload)]

\* Variant of LatAggregate: the mean of no sample is taken as 0.
LatAggregateNoSamples ==
    /\ pc = "lat_loop"
    /\ cur = Len(prepared)
    /\ pc' = "returned"
    /\ result' = LatencyRecord
    /\ UNCHANGED notengine
    /\ UNCHANGED <<engine, mode, workload, client_threads, prepared, translated,
                   tasks, fut, progress, queue, thread, ctx, tl_client, executed,
                   consumed, total_ops, start_taken, end_taken, timer_on, cur,
                   latencies>>

\* avg_lat = statistics.mean(latencies) raises StatisticsError on no sample;
\* otherwise the record is returned.
LatAggregate ==
    /\ pc = "lat_loop"
    /\ cur = Len(prepared)
    /\ IF latencies = <<>>
       THEN /\ pc' = "raised"
            /\ result' = result
       ELSE /\ pc' = "returned"
            /\ result' = LatencyRecord
    /\ UNCHANGED notengine
    /\ UNCHANGED <<engine, mode, workload, client_threads, prepared, translated,
                   tasks, fut, progress, queue, thread, ctx, tl_client, executed,
                   consumed, total_ops, start_taken, end_taken, timer_on, cur,
                   latencies>>

EngineNext ==
    \/ Compile
    \/ AsterBegin
    \/ Partition
    \/ StartTimer
    \/ Submit
    \/ \E t \in 1..Len(tasks) : CollectResult(t)
    \/ \E t \in 1..Len(tasks) : CollectFailure(t)
    \/ CollectFinished
    \/ Shutdown
    \/ StopTimer
    \/ \E w \in Threads : TakeTask(w)
    \/ \E w \in Threads : ExecOp(w)
    \/ LatStartTimer
    \/ LatExec
    \/ LatAggregate

\* The variables of the engines while another part is checked.
EngineIdle ==
    /\ engine = "none"
    /\ mode = "none"
    /\ workload = <<>>
    /\ client_threads = 1
    /\ pc = "idle"
    /\ prepared = <<>>
    /\ translated = {}
    /\ tasks = <<>>
    /\ fut = <<>>
    /\ progress = <<>>
    /\ queue = <<>>
    /\ thread = [w \in 1..1 |-> 0]
    /\ ctx = [w \in 1..1 |-> NoCtx]
    /\ tl_client = {}
    /\ executed = <<>>
    /\ consumed = {}
    /\ total_ops = 0
    /\ start_taken = FALSE
    /\ end_taken = FALSE
    /\ timer_on = FALSE
    /\ cur = 0
    /\ latencies = <<>>
    /\ result = NoResult

\* One run of an engine in one mode.
\* No function under study is being applied.
FunIdle ==
    /\ f_call = "idle"
    /\ f_in = <<>>
    /\ f_out = <<>>

Init == EngineInit /\ GenIdle /\ RunnerIdle /\ FunIdle

Next == EngineNext

Spec == Init /\ [][Next]_vars

\* One call of a workload synthesizer.
InitGen == GenInit /\ EngineIdle /\ RunnerIdle /\ FunIdle

SpecGen == InitGen /\ [][GenNext]_vars

\* One run of the task loop of docker_runner.main.
InitRunner == RunnerInit /\ EngineIdle /\ GenIdle /\ FunIdle

SpecRunner == InitRunner /\ [][RunnerNext]_vars

\* One call of get_sample_ids.
InitSample == SampleInit /\ EngineIdle /\ GenIdle /\ RunnerIdle

SpecSample == InitSample /\ [][SampleNext]_vars

(***************************************************************************)
(* Properties of get_sample_ids (specification SpecSample).                *)
(***************************************************************************)
SampleReturned ==
    f_call \in {"dataset_tools.get_sample_ids", "docker_runner.get_sample_ids"}

\* The tokens of a line as the specification of the dataset format reads
\* them: comment lines have none.
YieldsNoIds(file) ==
    \A i \in 1..Len(file.lines) :
        \/ file.lines[i][1] \in {"%", "#"}
        \/ Len(Split(Replace(file.lines[i], ",", " "))) < 2

\* C12: get_sample_ids never returns an empty pool; for a readable file that
\* yields no identifiers (empty, only comment lines, only lines of fewer
\* than two tokens) it returns the fixed 2-element default pool.
C12_NeverEmptyPool ==
    SampleReturned =>
        /\ f_out # <<>>
        /\ (f_in.file.readable /\ YieldsNoIds(f_in.file)) => f_out = DummyIds

\* C21: the pool returned by get_sample_ids(filepath, count) never holds
\* more than count identifiers, for every dataset file and every cap
\* count >= 1, and holds no identifier twice.
C21_PoolWithinCap ==
    SampleReturned =>
        /\ Len(f_out) <= f_in.count
        /\ \A i, j \in 1..Len(f_out) : f_out[i] = f_out[j] => i = j

\* The returned pool never holds an identifier twice.
C21_NoDuplicates ==
    SampleReturned =>
        \A i, j \in 1..Len(f_out) : f_out[i] = f_out[j] => i = j

\* The characters that end a token of a dataset line.
Separators == {" ", "\t", "\n", ","}

\* The positions where a token of the line starts, and the token there.
TokenStarts(line) ==
    {i \in 1..Len(line) :
        line[i] \notin Separators /\ (i = 1 \/ line[i - 1] \in Separators)}

TokenAt(line, i) ==
    SubSeq(line, i,
           CHOOSE j \in i..Len(line) :
               /\ \A c \in i..j : line[c] \notin Separators
               /\ (j = Len(line) \/ line[j + 1] \in Separators))

\* What a line contributes: its first and second token when it is not a
\* comment line and has two tokens or more.
Contribution(line) ==
    LET starts == TokenStarts(line)
        first == CHOOSE i \in starts : \A o \in starts : i <= o
        second == CHOOSE i \in starts \ {first} :
                      \A o \in starts \ {first} : i <= o
    IN  IF line[1] \in {"%", "#"} \/ Cardinality(starts) < 2 THEN {}
        ELSE {TokenAt(line, first), TokenAt(line, second)}

\* The identifiers of the first k lines.
Collected(lines, k) == UNION {Contribution(lines[i]) : i \in 1..k}

\* The number of lines read: up to the first line with which the cap is
\* reached, all lines when it never is.
LinesRead(lines, count) ==
    LET capped == {k \in 1..Len(lines) :
                      Cardinality(Collected(lines, k)) >= count}
    IN  IF capped = {} THEN Len(lines)
        ELSE CHOOSE k \in capped : \A o \in capped : k <= o

\* Opening the file fails, or fetching a line fails before the loop ends.
ReadFails(file, count) ==
    \/ ~file.readable
    \/ file.bad_at \in 1..LinesRead(file.lines, count)

\* C26: if opening or reading the dataset file fails at any point, including
\* after some identifiers were collected, get_sample_ids raises nothing and
\* returns exactly ["0", "1"]: the identifiers collected before the failure
\* are not returned.
C26_FailureGivesDummyIds ==
    (SampleReturned /\ ReadFails(f_in.file, f_in.count)) => f_out = DummyIds

\* A read that fails at the second line, after "1" and "2" were collected
\* from the first.
C26_Witness ==
    /\ SampleReturned
    /\ f_in.file.readable
    /\ f_in.file.lines = <<L_edge, L_edge23>>
    /\ f_in.file.bad_at = 2
    /\ f_in.count = DefaultCount
    /\ f_out = DummyIds

\* C27: reading lines in file order until the cap is reached, the sampler
\* puts into the pool exactly the first and the second token of every line
\* that does not begin with % or # and has at least two tokens after
\* splitting on whitespace and commas; comment lines, lines with fewer than
\* two tokens and third or later tokens contribute nothing.
C27_SamplerParsing ==
    (SampleReturned /\ ~ReadFails(f_in.file, f_in.count)) =>
        /\ Range(f_out) =
              Collected(f_in.file.lines, LinesRead(f_in.file.lines, f_in.count))
        /\ \A i, j \in 1..Len(f_out) : f_out[i] = f_out[j] => i = j

\* A comma-separated line with four tokens after a comment line.
C27_Witness ==
    /\ SampleReturned
    /\ f_in.file = [readable |-> TRUE, lines |-> <<L_percent, L_weighted>>,
                    bad_at |-> 0]
    /\ Range(f_out) = {<<"4">>, <<"1">>}
    /\ Len(f_out) = 2

\* One call of generate_mixed_workload.
InitMixed == MixedInit /\ EngineIdle /\ GenIdle /\ RunnerIdle

SpecMixed == InitMixed /\ [][MixedNext]_vars

(***************************************************************************)
(* Properties of generate_mixed_workload (specification SpecMixed).        *)
(***************************************************************************)
\* The table entries a lower-cased key names exactly, and those whose name
\* it holds.
ExactEntries(k) ==
    {j \in 1..Len(MIXED_CONFIG_KEY_MAP) : MIXED_CONFIG_KEY_MAP[j][1] = k}

HeldEntries(k) ==
    {j \in 1..Len(MIXED_CONFIG_KEY_MAP) :
        \E at \in 0..Len(k) :
            /\ at + Len(MIXED_CONFIG_KEY_MAP[j][1]) <= Len(k)
            /\ \A c \in 1..Len(MIXED_CONFIG_KEY_MAP[j][1]) :
                  k[at + c] = MIXED_CONFIG_KEY_MAP[j][1][c]}

\* The category the resolution rule gives a key, "" when it gives none.
CategoryOf(key) ==
    LET k == Lower(key)
        entries == IF ExactEntries(k) # {} THEN ExactEntries(k) ELSE HeldEntries(k)
    IN  IF entries = {} THEN ""
        ELSE MIXED_CONFIG_KEY_MAP[CHOOSE j \in entries :
                                    \A o \in entries : j <= o][2]

\* The positions of the keys of a ratio spec that the rule resolves.
ResolvedAt(ratios) == {i \in 1..Len(ratios) : CategoryOf(ratios[i][1]) # ""}

\* C15: generate_mixed_workload lower-cases each key of the ratio spec and
\* resolves it by exact match against the table first and, only without an
\* exact match, by the first table entry whose name the key holds; a key
\* matching no entry contributes neither a category nor a weight; the weight
\* of a resolved key is kept unchanged.
C15_KeyResolution ==
    f_call \in {"mixed_returned", "mixed_raised"} =>
        LET ratios == f_in.ratios
            kept == ResolvedAt(ratios)
            \* the i-th resolved key's position in the spec
            Nth(i) == CHOOSE p \in kept :
                          Cardinality({q \in kept : q <= p}) = i
        IN  /\ Len(f_out.population) = Cardinality(kept)
            /\ Len(f_out.weights) = Cardinality(kept)
            /\ \A i \in 1..Cardinality(kept) :
                  /\ f_out.population[i] = CategoryOf(ratios[Nth(i)][1])
                  /\ f_out.weights[i] = ratios[Nth(i)][2]

\* A call whose spec holds an upper-case key, a key resolved by the name it
\* holds, and a key that is dropped.
C15_Witness ==
    /\ f_call = "mixed_returned"
    /\ f_in.ratios = << <<S_add_edges_upper, 3>>, <<S_bogus, 2>>, <<S_reads, 1>> >>
    /\ f_out.population = <<"ADD_EDGE", "READ_NBRS">>
    /\ f_out.weights = <<3, 1>>
    /\ Len(f_out.ops) = f_in.num_ops
    /\ f_in.num_ops > 0

\* The category docker_runner gives a key: exact match only.
RunnerCategoryOf(key) ==
    IF \E j \in 1..Len(KEY_MAP) : KEY_MAP[j][1] = key
    THEN KEY_MAP[CHOOSE j \in 1..Len(KEY_MAP) : KEY_MAP[j][1] = key][2]
    ELSE ""

MixedCalled ==
    f_call \in {"mixed_returned", "mixed_raised",
                "runner_mixed_returned", "runner_mixed_raised"}

ByTools == f_call \in {"mixed_returned", "mixed_raised"}

\* The (category, weight) pairs the called implementation's rule resolves.
ResolvedPairs ==
    LET ratios == f_in.ratios
    IN  {<<IF ByTools THEN CategoryOf(ratios[i][1])
           ELSE RunnerCategoryOf(ratios[i][1]), ratios[i][2]>> :
            i \in 1..Len(ratios)} \ ({""} \X (0..10))

\* What single-type generation of n operations of one type returns from a
\* state of the random source, in the called implementation.
SingleTypeRun(op_type, n, rng) ==
    IF ByTools
    THEN GenerateSingleTaskWorkload(op_type, f_in.existing_ids, n, rng)
    ELSE RunnerCreateOps(Repeat(op_type, n),
                         IF f_in.existing_ids = <<>> THEN << <<"0">> >>
                         ELSE f_in.existing_ids, rng)

\* C25: if no ratio key resolves (the spec is empty or holds only
\* unrecognized keys) generate_mixed_workload returns exactly what
\* single-type READ_NBRS generation returns for the same pool and count:
\* count operations, all READ_NBRS, and no error.
C25_FallbackReadNbrs ==
    (MixedCalled /\ ResolvedPairs = {}) =>
        /\ f_call \in {"mixed_returned", "runner_mixed_returned"}
        /\ Len(f_out.ops) = f_in.num_ops
        /\ \A i \in 1..Len(f_out.ops) : f_out.ops[i].type = "READ_NBRS"
        /\ f_out.ops = SingleTypeRun("READ_NBRS", f_in.num_ops, f_in.rng).ops

\* A call with only an unrecognized key, on a pool of two identifiers.
C25_Witness ==
    /\ f_call = "mixed_returned"
    /\ f_in.ratios = << <<S_bogus, 1>> >>
    /\ f_in.num_ops = 2
    /\ Len(f_in.existing_ids) = 2
    /\ Len(f_out.ops) = 2
    /\ f_out.ops[1].type = "READ_NBRS"
    /\ f_out.ops[1].params.id # f_out.ops[2].params.id

\* Every operation of ops is the one single-type generation of its type
\* builds from the state the random source is in when it is built.
RECURSIVE BuiltAsSingle(_, _)
BuiltAsSingle(ops, rng) ==
    \/ ops = <<>>
    \/ LET one == SingleTypeRun(Head(ops).type, 1, rng)
       IN  /\ one.ops = <<Head(ops)>>
           /\ BuiltAsSingle(Tail(ops), one.rng)

\* C28: in a mixed workload every operation's type is one of the categories
\* the ratio spec resolved to, and a category whose weight is 0 is never
\* drawn when another category has positive weight; each operation is
\* built by the same per-type rules as single-type generation.
C28_MixedTypes ==
    (f_call \in {"mixed_returned", "runner_mixed_returned"}
     /\ ResolvedPairs # {}) =>
        LET categories == {p[1] : p \in ResolvedPairs}
            weighted == {p[1] : p \in {q \in ResolvedPairs : q[2] > 0}}
        IN  /\ Len(f_out.ops) = f_in.num_ops
            /\ \A i \in 1..Len(f_out.ops) :
                  /\ f_out.ops[i].type \in categories
                  /\ weighted # {} => f_out.ops[i].type \in weighted
            /\ BuiltAsSingle(f_out.ops,
                             [f_in.rng EXCEPT !.at = @ + f_in.num_ops])

\* A call whose spec gives DEL_EDGE the weight 0 and ADD_NODE the weight 1.
C28_Witness ==
    /\ f_call \in {"mixed_returned", "runner_mixed_returned"}
    /\ f_in.ratios = << <<S_delete_edges, 0>>, <<S_add_nodes, 1>> >>
    /\ f_out.population = <<"DEL_EDGE", "ADD_NODE">>
    /\ f_in.num_ops = 2
    /\ \A i \in 1..2 : f_out.ops[i].type = "ADD_NODE"

\* A call that draws two different categories.
C28_MixedWitness ==
    /\ f_call = "mixed_returned"
    /\ Len(f_out.ops) = 2
    /\ f_out.ops[1].type # f_out.ops[2].type

\* One call of generate_single_task_workload.
InitSingle == SingleInit /\ EngineIdle /\ GenIdle /\ RunnerIdle

SpecSingle == InitSingle /\ [][SingleNext]_vars

(***************************************************************************)
(* Properties of generate_single_task_workload (specification SpecSingle). *)
(***************************************************************************)
\* C17: generate_single_task_workload(op_type, ids, N) returns exactly N
\* operations, every one of type op_type and well formed for its type: params
\* holds exactly id for READ_NBRS, ADD_NODE and DEL_NODE, and exactly src and
\* dst for ADD_EDGE and DEL_EDGE.
C17_SingleTaskWorkload ==
    f_call = "single_returned" =>
        /\ Len(f_out) = f_in.num_ops
        /\ \A i \in 1..Len(f_out) :
              /\ DOMAIN f_out[i] = {"type", "params"}
              /\ f_out[i].type = f_in.op_type
              /\ f_in.op_type \in {"READ_NBRS", "ADD_NODE", "DEL_NODE"} =>
                    DOMAIN f_out[i].params = {"id"}
              /\ f_in.op_type \in {"ADD_EDGE", "DEL_EDGE"} =>
                    DOMAIN f_out[i].params = {"src", "dst"}

\* A returned sequence of edge operations, one of them a loop, one not.
C17_Witness ==
    /\ f_call = "single_returned"
    /\ f_in.op_type = "DEL_EDGE"
    /\ Len(f_out) = MaxGenOps
    /\ \E i, j \in 1..Len(f_out) :
          /\ f_out[i].params.src = f_out[i].params.dst
          /\ f_out[j].params.src # f_out[j].params.dst

\* The aggregation of the duration samples of a latency run.
InitAgg == AggInit /\ EngineIdle /\ GenIdle /\ RunnerIdle

SpecAgg == InitAgg /\ [][AggNext]_vars

(***************************************************************************)
(* Properties of the latency aggregation (specification SpecAgg).          *)
(***************************************************************************)
\* The k-th smallest of the samples, by counting.
KthSmallest(data, k) ==
    CHOOSE v \in Range(data) :
        /\ Cardinality({i \in 1..Len(data) : data[i] < v}) < k
        /\ k <= Cardinality({i \in 1..Len(data) : data[i] <= v})

\* The 99th of the 99 cut points of n >= 100 samples, in hundredths: the
\* point at rank 99 * (n + 1) / 100 of the ordered samples, between the
\* samples of the ranks around it.
CutPoint99(data) ==
    LET n == Len(data)
        rank100 == 99 * (n + 1)
        lo == rank100 \div 100
        below == KthSmallest(data, lo)
        above == KthSmallest(data, lo + 1)
    IN  below * 100 + (rank100 - lo * 100) * (above - below)

\* C19: p99_latency_ms is reported as 0 whenever fewer than 100 duration
\* samples were recorded and is the 99th of the 99 cut points of the samples
\* whenever at least 100 were recorded; the boundary is exactly N = 100.
C19_P99Boundary ==
    (f_call = "aggregated" /\ f_out.status = "ok") =>
        LET n == Len(f_in.latencies)
            p99 == f_out.p99_latency_ms
        IN  /\ n < 100 => p99.num = 0
            /\ n >= 100 => p99.num * 100 = CutPoint99(f_in.latencies) * p99.den

\* A record of exactly 100 samples whose percentile is not 0.
C19_Witness ==
    /\ f_call = "aggregated"
    /\ f_out.status = "ok"
    /\ Len(f_in.latencies) = 100
    /\ f_out.p99_latency_ms.num > 0

\* The chunking of one throughput run.
InitChunk == ChunkInit /\ EngineIdle /\ GenIdle /\ RunnerIdle

SpecChunk == InitChunk /\ [][ChunkNext]_vars

(***************************************************************************)
(* Properties of the chunking (specification SpecChunk).                   *)
(***************************************************************************)
\* C20: throughput mode splits a sequence of N >= K operations into exactly
\* K chunks, so that each of the K configured workers receives one chunk and
\* the run is measured at concurrency K.
C20_ExactlyKChunks ==
    (f_call = "chunks_made" /\ f_in.n >= f_in.client_threads) =>
        Len(f_out) = f_in.client_threads

\* The aggregation of one throughput run.
InitTput == TputInit /\ EngineIdle /\ GenIdle /\ RunnerIdle

SpecTput == InitTput /\ [][TputNext]_vars

(***************************************************************************)
(* Properties of the throughput aggregation (specification SpecTput).      *)
(***************************************************************************)
\* C30: the throughput record reports total_ops = the length of the input
\* sequence and ops_per_sec = total_ops / elapsed; when elapsed is 0 it
\* reports ops_per_sec = 0 and no division by zero occurs.
C30_ThroughputAggregation ==
    /\ f_call = "throughput_recorded" =>
          /\ f_out.total_ops = f_in.n
          /\ f_in.elapsed > 0 =>
                /\ f_out.ops_per_sec.den # 0
                /\ f_out.ops_per_sec.num * f_in.elapsed
                      = f_in.n * 1000 * f_out.ops_per_sec.den
          /\ f_in.elapsed = 0 => f_out.ops_per_sec.num = 0
    /\ (f_call = "throughput_raised" /\ f_in.elapsed = 0) =>
          (f_in.engine \in ChunkedEngines /\ f_in.n = 0)

\* A run of three operations whose two clock readings are equal.
C30_Witness ==
    /\ f_call = "throughput_recorded"
    /\ f_in.elapsed = 0
    /\ f_in.n = 3
    /\ f_out.total_ops = 3
    /\ f_out.ops_per_sec = [num |-> 0, den |-> 1]

\* One call of print_progress.
InitProgress == ProgressInit /\ EngineIdle /\ GenIdle /\ RunnerIdle

SpecProgress == InitProgress /\ [][ProgressNext]_vars

\* C35: print_progress(current, total) never raises: for every total >= 0
\* and every 0 <= current <= total it returns normally (in particular for
\* small datasets with 1 <= total < 20), and it reports progress whenever
\* current == total.
C35_ProgressNeverRaises ==
    f_call \in {"progress_returned", "progress_raised"} =>
        /\ f_call = "progress_returned"
        /\ f_in.current = f_in.total => f_out.printed

\* With 20 items or more the call returns, and reports at the last item.
C35_LargeTotals ==
    (f_call \in {"progress_returned", "progress_raised"} /\ f_in.total >= 20) =>
        /\ f_call = "progress_returned"
        /\ f_in.current = f_in.total => f_out.printed

\* Two runs of the benchmark on the same inputs.
InitPair == PairInit /\ EngineIdle /\ GenIdle /\ RunnerIdle

SpecPair == InitPair /\ [][PairNext]_vars

(***************************************************************************)
(* Properties of two runs (specification SpecPair).                        *)
(***************************************************************************)
\* C13: two benchmark runs with the same seed, the same ID pool contents,
\* the same task order, counts and ratios generate identical operation
\* sequences, operation by operation, for every task of the run.
C13_Reproducible ==
    f_call = "two_runs_done" => f_out.a = f_out.b

(***************************************************************************)
(* Properties of the task loop (specification SpecRunner).                 *)
(***************************************************************************)
\* C11: in every operation sequence generated in a run, each READ_NBRS or
\* DEL_NODE id and each ADD_EDGE or DEL_EDGE src and dst is an element of the
\* ID pool that get_sample_ids returned for that run, for every dataset file
\* content, files that yield no identifiers included.
C11_IdsFromPool ==
    \A i \in 1..Len(r_input) :
        LET op == r_input[i]
            pool == Range(r_dataset_ids)
        IN  /\ op.type \in {"READ_NBRS", "DEL_NODE"} => op.params.id \in pool
            /\ op.type \in {"ADD_EDGE", "DEL_EDGE"} =>
                  (op.params.src \in pool /\ op.params.dst \in pool)

\* The tasks gone through for which generate_workload was called.
GeneratedFor ==
    {k \in 1..r_i : r_tasks[k].name \in DbMethods \ {S_load_graph}}

\* C14: in a run of docker_runner.main the random source is seeded with the
\* fixed seed exactly once, before the first generate_workload call: no
\* synthesis call draws from an unseeded source, and the source is not
\* reseeded between tasks.
C14_SeededOnceBeforeGeneration ==
    /\ r_seeds <= 1
    /\ GeneratedFor # {} => r_seeds = 1

\* get_sample_ids is called at most once in a run.
C22_SampledOnce == r_samples <= 1

\* Once sampled, the pool is only read.
C22_PoolReadOnly == r_cached_ids # <<>> => r_cached_ids' = r_cached_ids

C22_PoolOnlyRead == [][C22_PoolReadOnly]_vars

\* C22: within one run the dataset is sampled at most once: get_sample_ids is
\* called before the first non-load task and never again, however many
\* tasks follow and whatever it returned; after that the pool is only read,
\* no generate_workload call or engine run adds, removes or reorders its
\* elements.
C22_SampleAtMostOnce == []C22_SampledOnce /\ [][C22_PoolReadOnly]_vars

\* C23: a bare numeric value returned by a task method (integer or float) is
\* recorded as {duration_s: value}; a mapping is recorded unchanged.
C23_MetricsNormalization ==
    \A k \in 1..Len(r_results) :
        r_log[k] = "ok" =>
            LET ret == r_returned[k]
                metrics == r_results[k].metrics
            IN  /\ ret.py \in {"int", "float"} =>
                       metrics = PyDict([duration_s |-> ret.value])
                /\ ret.py = "dict" => metrics = ret

\* C24: when a task method returns an absent result (None or empty, as
\* load_graph does) the recorded metrics are a mapping holding duration_s;
\* the recorded metrics of a successful task are never None or empty.
C24_AbsentResultFallback ==
    \A k \in 1..Len(r_results) :
        r_log[k] = "ok" =>
            LET ret == r_returned[k]
                metrics == r_results[k].metrics
            IN  /\ metrics.py # "None"
                /\ metrics.py = "dict" => DOMAIN metrics.items # {}
                /\ ret.py = "None" =>
                       /\ metrics.py = "dict"
                       /\ "duration_s" \in DOMAIN metrics.items

\* C29: when a throughput task descriptor specifies no concurrency degree
\* the run through docker_runner.main uses K = 8 workers; when it specifies
\* one, the engine uses exactly that value for that task.
C29_ConcurrencyDegree ==
    (/\ r_i > 0
     /\ Len(r_log) = r_i
     /\ r_log[r_i] \in {"ok", "exec_raise"}
     /\ Contains(r_tasks[r_i].name, S_suffix_throughput)) =>
        WorkersUsed = Get(r_tasks[r_i], "client_threads", 8)

\* The engine uses the degree a descriptor specifies.
C29_SpecifiedDegree ==
    (/\ r_i > 0
     /\ Len(r_log) = r_i
     /\ r_log[r_i] \in {"ok", "exec_raise"}
     /\ Contains(r_tasks[r_i].name, S_suffix_throughput)
     /\ "client_threads" \in DOMAIN r_tasks[r_i]) =>
        WorkersUsed = r_tasks[r_i].client_threads

C9_Entries ==
    /\ r_pc # "crashed"
    /\ r_i <= Len(r_tasks)
    /\ Len(r_results) = r_i
    /\ Len(r_log) = r_i
    /\ \A k \in 1..r_i :
          /\ r_results[k].task = r_tasks[k].name
          /\ r_results[k].config = r_tasks[k]
          /\ r_results[k].status \in {"failed", "success"}
          /\ r_log[k] # "ok" =>
                (r_results[k].status = "failed" /\ "error" \in DOMAIN r_results[k])
          /\ r_log[k] = "ok" => r_results[k].status = "success"
    /\ r_pc = "done" =>
          /\ r_i = Len(r_tasks)
          /\ r_report_arg =>
                (r_report.written /\ r_report.results = r_results)

C9_EntriesKept ==
    \A k \in 1..Len(r_results) :
        Len(r_results') >= k /\ r_results'[k] = r_results[k]

\* C9: task-level failure isolation in docker_runner.main.  The loop appends
\* exactly one entry per task, in task order; a task whose generation or
\* execution raises, or whose method does not exist, is recorded as "failed"
\* with an error text; every later task is still run; the entries of the
\* tasks already gone through are left unchanged; the report written at the
\* end holds all entries.
C9_TaskIsolation == []C9_Entries /\ [][C9_EntriesKept]_vars

\* A finished run in which a task failed and a later task succeeded.
C9_Witness ==
    /\ r_pc = "done"
    /\ r_report_arg
    /\ \E j, k \in 1..Len(r_log) :
          j < k /\ r_log[j] \in {"gen_raise", "exec_raise"} /\ r_log[k] = "ok"

(***************************************************************************)
(* Properties of the synthesizers (specification SpecGen).                 *)
(***************************************************************************)
\* C16: generation never fails the caller: for every ID pool, every count
\* >= 0 and every ratio spec of non-negative weights, a spec whose resolved
\* weights are all 0 included, generate_workload and generate_mixed_workload
\* return a sequence and raise no error.
C16_GenerationNeverRaises ==
    g_impl \in {"tools", "runner"} => g_out.status # "raise"

IsDigit(c) == c \in {"0", "1", "2", "3", "4", "5", "6", "7", "8", "9"}

\* The decimal writing of an integer between 1000000 and 99999999: seven or
\* eight digits, the first not 0.
IsMintedNumber(str) ==
    /\ Len(str) \in {7, 8}
    /\ \A i \in 1..Len(str) : IsDigit(str[i])
    /\ str[1] # "0"

AddNodeOps == {i \in 1..Len(g_out.ops) : g_out.ops[i].type = "ADD_NODE"}

\* C18: every ADD_NODE operation the synthesizer produces has an id of the
\* form "new_" followed by an integer between 1000000 and 99999999; it is
\* never an element of an ID pool whose entries do not start with "new_",
\* and is not drawn from the pool.
C18_MintedIds ==
    g_impl \in {"tools", "runner"} =>
        \A i \in AddNodeOps :
            LET id == g_out.ops[i].params.id
            IN  /\ Len(id) > 4
                /\ SubSeq(id, 1, 4) = <<"n", "e", "w", "_">>
                /\ IsMintedNumber(SubSeq(id, 5, Len(id)))
                /\ \A k \in 1..Len(g_ids) : g_ids[k] # id

\* Generated ADD_NODE operations with a seven-digit and an eight-digit
\* number, against a pool that is not empty.
C18_Witness ==
    /\ g_impl = "tools"
    /\ g_ids # <<>>
    /\ \E i, j \in AddNodeOps :
          Len(g_out.ops[i].params.id) = 11 /\ Len(g_out.ops[j].params.id) = 12

\* C10: for every task name, ID pool (also an empty one) and ratio spec,
\* generate_workload returns a sequence of exactly num_ops operations, in
\* tools/workload_tools.py and in docker_runner.py alike.
C10_LengthIsNumOps ==
    g_impl # "none" => (g_out.status = "ok" /\ Len(g_out.ops) = g_n)

(***************************************************************************)
(* Properties of the engines (specification Spec).                         *)
(***************************************************************************)
\* s is ceil(n / k), stated without the model's own division.
IsCeil(s, n, k) == s * k >= n /\ (s - 1) * k < n

Positions(c) == {c[j].pos : j \in 1..Len(c)}

Partitioned ==
    /\ mode = "throughput"
    /\ engine \in ChunkedEngines
    /\ pc \notin {"start", "partition"}
    /\ Len(prepared) >= 1

\* C1: Throughput Mode partitioning.  For N >= 1 operations and K >= 1
\* workers the chunks built by _execute_throughput are contiguous, each has
\* exactly ceil(N/K) operations except possibly a shorter, non-empty final
\* chunk, no operation is in two chunks, and the chunks concatenated in order
\* are the original sequence.
C1_Partitioning ==
    Partitioned =>
        LET N == Len(prepared)
            M == Len(tasks)
        IN  /\ N = Len(workload)
            /\ M >= 1
            /\ Flatten(tasks) = prepared
            /\ [i \in 1..N |-> Flatten(tasks)[i].pos] = [i \in 1..N |-> i]
            /\ \A c \in 1..(M - 1) : IsCeil(Len(tasks[c]), N, client_threads)
            /\ Len(tasks[M]) >= 1
            /\ \E s \in 1..N : IsCeil(s, N, client_threads) /\ Len(tasks[M]) <= s
            /\ \A c \in 1..M : \A j \in 1..(Len(tasks[c]) - 1) :
                   tasks[c][j + 1].pos = tasks[c][j].pos + 1
            /\ \A c, d \in 1..M :
                   c # d => Positions(tasks[c]) \cap Positions(tasks[d]) = {}

\* A partition with several chunks whose final chunk is shorter.
C1_Witness ==
    /\ Partitioned
    /\ Len(tasks) >= 2
    /\ Len(tasks[Len(tasks)]) < Len(tasks[1])

\* The chunk an operation belongs to under the partition fixed at dispatch.
ChunkOf(p) == ((p - 1) \div CeilDiv(Len(prepared), client_threads)) + 1

\* C2: in Throughput Mode, in every engine, the operations of one chunk of
\* the ceil(N/K) partition are run by one worker, in sequence order, and no
\* worker runs an operation of another worker's chunk.
C2_StaticChunksInOrder ==
    (mode = "throughput" /\ Len(prepared) >= 1) =>
        \A a, b \in 1..Len(executed) :
            ChunkOf(executed[a].pos) = ChunkOf(executed[b].pos) =>
                /\ executed[a].thread = executed[b].thread
                /\ (a < b => executed[a].pos < executed[b].pos)

\* C3: Throughput Mode failure policy.  After a failing operation no later
\* operation of the same work item is run, the engine returns or raises only
\* when every worker is finished, and no throughput record is returned for a
\* run in which an operation failed.
C3_ThroughputFailurePolicy ==
    mode = "throughput" =>
        /\ \A a, b \in 1..Len(executed) :
               (a < b /\ ~executed[a].ok) => executed[a].task # executed[b].task
        /\ pc \in {"returned", "raised"} =>
               (queue = <<>> /\ \A w \in Threads : thread[w] = 0)
        /\ result.metric_type = "throughput" =>
               \A a \in 1..Len(executed) : executed[a].ok

\* C4: Throughput Mode barrier.  The start timestamp is taken before any
\* worker runs an operation, the end timestamp and the engine's return come
\* only after every dispatched worker has finished, and no per-operation
\* duration is recorded.
C4_Barrier ==
    mode = "throughput" =>
        /\ (executed # <<>> \/ \E w \in Threads : thread[w] # 0) => start_taken
        /\ (end_taken \/ pc \in {"returned", "raised"}) =>
               /\ queue = <<>>
               /\ \A w \in Threads : thread[w] = 0
               /\ \A t \in 1..Len(fut) : fut[t] \in {"done", "failed", "cancelled"}
        /\ pc = "returned" => (start_taken /\ end_taken)
        /\ latencies = <<>>
        /\ ~timer_on

\* A failed run that the engine left after several work items had started.
C4_Witness ==
    /\ mode = "throughput"
    /\ pc = "raised"
    /\ Len(tasks) >= 2
    /\ \E a, b \in 1..Len(executed) : executed[a].task # executed[b].task

\* C5: in Throughput Mode every context an operation runs on was created by
\* the worker that runs the operation and is used by no other worker.
C5_ContextOwnership ==
    mode = "throughput" =>
        \A a, b \in 1..Len(executed) :
            /\ executed[a].ctx.creator = executed[a].thread
            /\ executed[a].ctx = executed[b].ctx =>
                   executed[a].thread = executed[b].thread

\* C6: Latency Mode runs the operations one at a time in sequence order on
\* the calling thread; after a run over N >= 1 operations that raised no
\* error there are exactly N duration samples, one per operation, and the
\* record reports total_ops = N.
C6_LatencySequential ==
    mode = "latency" =>
        /\ \A k \in 1..Len(executed) :
               executed[k].pos = k /\ executed[k].thread = MainThread
        /\ \A w \in Threads : thread[w] = 0
        /\ (pc = "returned" /\ Len(workload) >= 1) =>
               /\ Len(executed) = Len(workload)
               /\ latencies = [i \in 1..Len(workload) |-> i]
               /\ result.metric_type = "latency"
               /\ result.total_ops = Len(workload)

C6_Witness ==
    /\ mode = "latency"
    /\ pc = "returned"
    /\ Len(workload) >= 2
    /\ \E i \in 1..Len(workload) : workload[i].type = "ADD_EDGE"

\* C7: Latency Mode failure policy.  In every engine a failing operation is
\* the last one executed, the run raises, and no latency record is returned.
C7_LatencyFailurePolicy ==
    mode = "latency" =>
        \A k \in 1..Len(executed) :
            ~executed[k].ok =>
                /\ k = Len(executed)
                /\ pc = "raised"
                /\ result = NoResult

\* C8: in Latency Mode, in every engine, the operation being timed has been
\* translated into its backend-native form before its timer was started.
C8_TranslateBeforeTimer ==
    (mode = "latency" /\ timer_on) => prepared[cur].pos \in translated

\* The executions of the operation at a position of the input sequence.
RunsOf(p) == {k \in 1..Len(executed) : executed[k].pos = p}

\* C31: after a Throughput Mode run that raised no error, every operation of
\* the input sequence has been executed exactly once (none skipped, none
\* executed by two workers), under every interleaving of the workers; in
\* the chunked engines the counts returned by the workers sum to the
\* sequence length N.
C31_EachOperationOnce ==
    (mode = "throughput" /\ pc = "returned") =>
        /\ \A i \in 1..Len(workload) : Cardinality(RunsOf(workload[i].pos)) = 1
        /\ Len(executed) = Len(workload)
        /\ engine \in ChunkedEngines => total_ops = Len(workload)

\* A returned run of three operations that two pool threads executed.
C31_Witness ==
    /\ mode = "throughput"
    /\ pc = "returned"
    /\ engine \in ChunkedEngines
    /\ Len(workload) = 3
    /\ total_ops = 3
    /\ \E a, b \in 1..Len(executed) : executed[a].thread # executed[b].thread

(***************************************************************************)
(* The two synthesizers compared (specification SpecGen).                  *)
(***************************************************************************)
\* The state the random source was in when generate_workload was called.
StartRng == [g_rng EXCEPT !.at = 0]

\* Both synthesizers raise, or both return the same sequence and leave the
\* random source in the same state.
SameOutcome(a, b) ==
    /\ a.status = b.status
    /\ a.status = "ok" => (a.ops = b.ops /\ a.rng = b.rng)

\* C32: started from the same random-source state and given the same task
\* name, ID pool, count and ratio spec, docker_runner.generate_workload and
\* tools.workload_tools.generate_workload return the identical operation
\* sequence and leave the random source in the same state (for single-type
\* task names, for mixed task names with and without ratios, for ratio keys
\* in any letter case, and for an empty pool).
C32_SynthesizersAgree ==
    g_impl # "none" =>
        /\ [status |-> g_out.status, ops |-> g_out.ops, rng |-> g_rng]
              = IF g_impl = "tools"
                THEN ToolsGenerateWorkload(g_task, g_ids, g_n, g_ratios, StartRng)
                ELSE RunnerGenerateWorkload(g_task, g_ids, g_n, g_ratios, StartRng)
        /\ SameOutcome(
              ToolsGenerateWorkload(g_task, g_ids, g_n, g_ratios, StartRng),
              RunnerGenerateWorkload(g_task, g_ids, g_n, g_ratios, StartRng))

\* The synthesizers agree on a pool that is not empty, for single-type task
\* names and for mixed task names with lower-case keys of the runner's table.
C32_AgreeOnCommonInputs ==
    (/\ g_impl # "none"
     /\ g_ids # <<>>
     /\ g_task = S_mixed_workload_latency =>
           (g_ratios # <<>> /\ \A i \in 1..Len(g_ratios) :
                                  CategoryOf(g_ratios[i][1])
                                    = RunnerCategoryOf(g_ratios[i][1]))) =>
        SameOutcome(
            ToolsGenerateWorkload(g_task, g_ids, g_n, g_ratios, StartRng),
            RunnerGenerateWorkload(g_task, g_ids, g_n, g_ratios, StartRng))

(***************************************************************************)
(* Empty operation sequences (specification Spec).                         *)
(***************************************************************************)
\* A chunked Throughput engine is run on an empty sequence.
EmptyChunkedRun ==
    mode = "throughput" /\ engine \in ChunkedEngines /\ workload = <<>>

\* C33: for an empty operation sequence the chunked Throughput engines
\* (e2e neo4j, aster) dispatch no worker and produce no Result Record:
\* computing the chunks with chunk size ceil(0/K) = 0 raises an error, which
\* the task loop records as a failed task.
C33_EmptyChunkedRaises ==
    EmptyChunkedRun =>
        /\ pc \in {"start", "partition", "raised"}
        /\ tasks = <<>> /\ fut = <<>> /\ executed = <<>>
        /\ \A w \in Threads : thread[w] = 0
        /\ result = NoResult
        /\ pc = "raised" =>
              /\ Caught("exec_raise")
              /\ FailedEntry([name |-> S_read_nbrs_throughput, ops |-> 0],
                             "range() arg 3 must not be zero").status = "failed"

\* The run of a chunked engine on an empty sequence has raised.
C33_Witness ==
    /\ EmptyChunkedRun
    /\ pc = "raised"
    /\ ~start_taken
    /\ result = NoResult

\* C34: for an empty operation sequence Latency Mode executes no operation
\* and produces no Result Record: averaging zero duration samples raises an
\* error, which the task loop records as a failed task; a latency record is
\* therefore only ever produced with total_ops >= 1.
C34_EmptyLatencyRaises ==
    mode = "latency" =>
        /\ workload = <<>> =>
              /\ pc \in {"start", "lat_loop", "raised"}
              /\ executed = <<>> /\ latencies = <<>>
              /\ result = NoResult
              /\ pc = "raised" =>
                    /\ Caught("exec_raise")
                    /\ FailedEntry([name |-> S_read_nbrs_latency, ops |-> 0],
                                   "mean requires at least one data point").status
                          = "failed"
        /\ result # NoResult =>
              (result.metric_type = "latency" /\ result.total_ops >= 1)

\* A latency run on an empty sequence has raised.
C34_Witness ==
    /\ mode = "latency"
    /\ workload = <<>>
    /\ pc = "raised"
    /\ cur = 0
    /\ result = NoResult

InitLoad == LoadInit /\ EngineIdle /\ GenIdle /\ RunnerIdle

SpecLoad == InitLoad /\ [][LoadNext]_vars

\* Edge lines sent so far, in sending order.
EdgesSent == Flatten([i \in 1..Len(f_out.sent) |-> f_out.sent[i].edges])

Endpoints(batch) ==
    {batch[i][1] : i \in 1..Len(batch)} \cup {batch[i][2] : i \in 1..Len(batch)}

LoadEnded == f_call \in {"load_returned", "load_raised"}

\* Every line read so far is sent or waits in the batch, in file order, and
\* when load_graph has ended every line of the file was sent once.
EveryEdgeOnceInOrder ==
    /\ f_call = "loading" =>
          EdgesSent \o f_out.edges_batch = SubSeq(f_in.edges, 1, f_out.pos)
    /\ LoadEnded => EdgesSent = f_in.edges

\* Each edge message directly follows the node message of its endpoints.
NodesBeforeEdges ==
    \A i \in 1..Len(f_out.sent) :
        f_out.sent[i].kind = "edges" =>
            /\ i > 1
            /\ f_out.sent[i - 1].kind = "nodes"
            /\ f_out.sent[i - 1].ids = Endpoints(f_out.sent[i].edges)

ClearedAfterFlush ==
    Len(f_out'.sent) > Len(f_out.sent) =>
        f_out'.local_nodes = {} /\ f_out'.edges_batch = <<>>

ClearedAfterFullFlush ==
    (Len(f_out'.sent) > Len(f_out.sent) /\ f_out'.pos > f_out.pos) =>
        f_out'.local_nodes = {} /\ f_out'.edges_batch = <<>>

\* C36: for every cleaned dataset, load_graph sends every edge line exactly
\* once, in file order, over the full-batch flushes plus the final flush, and
\* within every flush the batch's endpoint nodes are upserted before that
\* batch's edges are inserted; after a flush the node set and the edge batch
\* are both empty.
C36_BatchedLoading ==
    /\ [](EveryEdgeOnceInOrder /\ NodesBeforeEdges)
    /\ [][ClearedAfterFlush]_vars

\* The loaders built on e2e_impl/base.py send every line once and in order,
\* nodes before edges, and a full-batch flush leaves nothing behind.
C36_E2eLoaders ==
    /\ [](f_in.engine \in HasPreprocess =>
             EveryEdgeOnceInOrder /\ NodesBeforeEdges)
    /\ [][ClearedAfterFullFlush]_vars

C36_Witness ==
    /\ f_call = "load_returned"
    /\ Len(f_out.sent) = 6
    /\ Len(f_out.sent[6].edges) = 2
    /\ EdgesSent = f_in.edges

InitDataset == DatasetInit /\ EngineIdle /\ GenIdle /\ RunnerIdle

SpecDataset == InitDataset /\ [][DatasetNext]_vars

\* Endpoints of the edges in the cleaned file, as load_graph reads them.
LoadedNodes ==
    UNION {{Split(f_out.lines[i])[1], Split(f_out.lines[i])[2]} :
              i \in 1..Len(f_out.lines)}

\* C37: for every dataset file in the documented format (tokens separated by
\* whitespace or commas), every identifier that get_sample_ids puts into the
\* ID pool is an endpoint of some edge that clean_dataset writes to the
\* cleaned file.
C37_SampledIdsAreLoaded ==
    (f_out.sampled /\ f_out.cleaned) => Range(f_out.ids) \subseteq LoadedNodes

\* Without a comma in the file the sampled identifiers are loaded.
C37_WhitespaceFiles ==
    (/\ f_out.sampled
     /\ f_out.cleaned
     /\ \A i \in 1..Len(f_in.file.lines) : "," \notin Range(f_in.file.lines[i]))
        => Range(f_out.ids) \subseteq LoadedNodes

InitConnect == ConnectInit /\ EngineIdle /\ GenIdle /\ RunnerIdle

SpecConnect == InitConnect /\ [][ConnectNext]_vars

\* C38: db.connect is attempted at most 60 times, retrying stops at the
\* first attempt that succeeds, and if all 60 attempts fail the process
\* exits with status 1 before any task is run and without writing a report;
\* no task is ever run on a database whose connect has not succeeded.
C38_ConnectionRetry ==
    /\ f_out.attempts <= MaxAttempts
    /\ f_out.attempts = f_out.failed + (IF f_out.connected THEN 1 ELSE 0)
    /\ f_out.failed = MaxAttempts =>
          /\ f_call = "exited"
          /\ f_out.status = 1
          /\ ~f_out.connected
          /\ f_out.tasks_run = 0
          /\ ~f_out.report_written
    /\ (f_out.tasks_run > 0 \/ f_out.report_written \/ f_call = "tasks") =>
          f_out.connected

\* All 60 attempts failed and the process has exited.
C38_Witness ==
    /\ f_call = "exited"
    /\ f_out.attempts = MaxAttempts
    /\ f_out.failed = MaxAttempts

\* The last attempt succeeded and the tasks were run.
C38_LastAttemptWitness ==
    /\ f_call = "returned"
    /\ f_out.attempts = MaxAttempts
    /\ f_out.connected
    /\ f_out.tasks_run = MaxTasks

InitGenerator == GeneratorInit /\ EngineIdle /\ GenIdle /\ RunnerIdle

SpecGenerator == InitGenerator /\ [][GeneratorNext]_vars

GeneratorReturned == f_call \in {"add_nodes_returned", "mixed_returned"}

AddNodeAt == {i \in 1..Len(f_out.ops) : f_out.ops[i].type = "ADD_NODE"}

NoTwoAddNodesAlike ==
    \A i, j \in AddNodeAt :
        f_out.ops[i].params.id = f_out.ops[j].params.id => i = j

AddNodesOutsideExistingRange ==
    \A i \in AddNodeAt :
        f_out.ops[i].params.id \notin {Digits(k) : k \in 0..(f_in.node_count - 1)}

\* C39: in any workload WorkloadGenerator returns, from generate_add_nodes(n)
\* or from generate_mixed(n, ratios), no two ADD_NODE operations carry the
\* same id, and no ADD_NODE id lies in the existing range 0..node_count-1.
C39_AddNodeIdsNewAndUnique ==
    GeneratorReturned => NoTwoAddNodesAlike /\ AddNodesOutsideExistingRange

\* generate_add_nodes alone keeps both halves, and generate_mixed keeps the
\* ids outside the existing range.
C39_AddNodesAlone ==
    /\ f_call = "add_nodes_returned" => NoTwoAddNodesAlike
    /\ GeneratorReturned => AddNodesOutsideExistingRange

====
